---- MODULE Spec2Model ----
(***************************************************************************)
(* ORSF (Open Racing Setup Format): the canonical setup document, path     *)
(* addressing (get_value / set_value), flatten / inflate and the field     *)
(* mapping engine of cpp/src/mapping.cpp (Spec, SpecMap), the validator of *)
(* cpp/src/validator.cpp with ORSF::from_json and to_json (SpecValidate),  *)
(* the lookup table (SpecLut), the transforms and the unit converter       *)
(* (SpecUtils) of cpp/src/utils.cpp, and the adapter registry of           *)
(* cpp/src/adapter.cpp with one caller (SpecRegistry) and with concurrent  *)
(* threads (SpecThreads, SpecThreadsFair).                                 *)
(*                                                                         *)
(* Representation.                                                         *)
(*  - std::optional<T> is a sequence: <<>> is std::nullopt, <<x>> holds x. *)
(*  - a double of a document is an integer (the leaves of the model hold   *)
(*    whole numbers, gear ratios in tenths); a double of a lookup table or *)
(*    of the unit converter is an exact rational.                          *)
(*  - a std::string that is used as a path or map key is the tuple of its  *)
(*    '.'-separated fields: "setup.aero.front_wing" is                     *)
(*    <<"setup","aero","front_wing">>, "a.b." is <<"a","b","">> and the    *)
(*    empty string is <<"">>.  Appending ".x" to a string is Append(s,"x").*)
(*  - std::map<std::string,double> is a function from such keys.           *)
(***************************************************************************)
EXTENDS Integers, Sequences, FiniteSets, TLC

VARIABLES
    doc,      \* the caller's ORSF document
    call,     \* the operation called last, with its arguments ("none" before any)
    pre,      \* the caller's document when that operation was called
    ret,      \* what the operation returned (or the error it threw)
    mutations, \* number of direct field assignments the caller has made
    table_,   \* LookupTableConverter::table_ of the converter constructed
    adapters_, \* AdapterRegistry::adapters_ of the singleton registry
    mutex_,   \* AdapterRegistry::mutex_: the thread that holds it, if any
    thread,   \* each thread's position in the registry call it is making
    calls     \* number of registry calls the threads have made

(* The state of the adapter registry and of the threads that call it *)
registry == <<adapters_, mutex_, thread, calls>>

vars == <<doc, call, pre, ret, mutations, table_, registry>>

----------------------------------------------------------------------------
(* std::optional *)

nullopt == <<>>

Some(x) == <<x>>

has_value(o) == o # <<>>

value(o) == o[1]

(* static_cast<double>(int): exact for every int *)
static_cast_double(x) == x

----------------------------------------------------------------------------
(* Bounds of the model *)

MaxAssign == 4

MaxGears == 2

MaxMappings == 2

MaxFlat == 2

MaxThreads == 2

MaxCalls == 2

MaxAdapters == 3

----------------------------------------------------------------------------
(* core.hpp: the data model *)

CornerNames == {"front_left", "front_right", "rear_left", "rear_right"}

SuspensionSharedFields ==
    {"front_arb", "rear_arb", "heave_spring_n_mm", "heave_packer_mm"}

TiresNumericFields ==
    {"pressure_fl_kpa", "pressure_fr_kpa", "pressure_rl_kpa", "pressure_rr_kpa",
     "stagger_mm"}

BrakesNumericFields == {"brake_bias_pct", "max_force_n"}

(* Value-initialised structs: every optional member is nullopt *)
Aerodynamics ==
    [f \in {"front_wing", "rear_wing", "front_downforce_n", "rear_downforce_n",
             "front_ride_height_mm", "rear_ride_height_mm", "rake_mm",
             "brake_duct_front_pct", "brake_duct_rear_pct", "radiator_opening_pct"} |-> nullopt]

CornerSuspension ==
    [f \in {"camber_deg", "toe_deg", "caster_deg", "spring_rate_n_mm", "ride_height_mm",
             "bumpstop_gap_mm", "bumpstop_rate_n_mm", "packer_mm",
             "damper_bump_slow_n_s_m", "damper_bump_fast_n_s_m",
             "damper_rebound_slow_n_s_m", "damper_rebound_fast_n_s_m"} |-> nullopt]

Suspension == [f \in CornerNames \cup SuspensionSharedFields |-> nullopt]

Tires ==
    [f \in ({"compound"} \cup TiresNumericFields) |-> nullopt]

Drivetrain ==
    [f \in {"diff_preload_nm", "diff_power_ramp_pct", "diff_coast_ramp_pct",
             "final_drive_ratio", "lsd_clutch_plates"} |-> nullopt]

Gearing ==
    [f \in {"gear_ratios", "reverse_ratio"} |-> nullopt]

Brakes ==
    [f \in ({"pad_compound", "disc_type"} \cup BrakesNumericFields) |-> nullopt]

Electronics ==
    [f \in {"tc_level", "tc2_level", "abs_level", "engine_map", "engine_brake_level",
             "pit_limiter_kph"} |-> nullopt]

Fuel ==
    [f \in {"start_fuel_l", "per_lap_consumption_l", "stint_target_laps", "mixture_setting"} |-> nullopt]

Setup ==
    [f \in {"aero", "suspension", "tires", "drivetrain", "gearing", "brakes",
             "electronics", "fuel", "strategy"} |-> nullopt]

Metadata ==
    [id |-> "", name |-> "", notes |-> nullopt, created_at |-> "",
     updated_at |-> nullopt, created_by |-> nullopt, tags |-> nullopt,
     source |-> nullopt, origin_sim |-> nullopt]

Car ==
    [make |-> "", model |-> "", variant |-> nullopt, car_class |-> nullopt,
     bop_id |-> nullopt]

Context ==
    [f \in {"track", "layout", "ambient_temp_c", "track_temp_c", "rubber", "wetness",
             "session_type", "fuel_rule"} |-> nullopt]

(* ORSF::ORSF() : schema("orsf://v1") *)
ORSF ==
    [schema |-> "orsf://v1", metadata |-> Metadata, car |-> Car,
     context |-> nullopt, setup |-> Setup, compat |-> nullopt]

(* The value-initialised struct of a subsystem, by its member name in Setup *)
SubsystemStruct(s) ==
    CASE s = "aero" -> Aerodynamics
      [] s = "suspension" -> Suspension
      [] s = "tires" -> Tires
      [] s = "drivetrain" -> Drivetrain
      [] s = "gearing" -> Gearing
      [] s = "brakes" -> Brakes
      [] s = "electronics" -> Electronics
      [] s = "fuel" -> Fuel

----------------------------------------------------------------------------
(* utils.cpp: StringUtils::split(str, '.') by std::getline.  Every field   *)
(* up to a delimiter is a part; what follows the last delimiter is a part  *)
(* only when it is not empty, so a trailing '.' adds nothing and the empty *)
(* string has no parts.                                                    *)

split(str) ==
    IF str[Len(str)] = "" THEN SubSeq(str, 1, Len(str) - 1) ELSE str

split_path(path) == split(path)

(* std::to_string(i) appended to "gear_" *)
GearNames == <<"gear_0", "gear_1", "gear_2", "gear_3", "gear_4", "gear_5">>

gear_key(i) == <<"setup", "gearing", GearNames[i + 1]>>

----------------------------------------------------------------------------
(* std::map<std::string, double> *)

EmptyMap == [k \in {} |-> 0]

MapPut(m, k, v) == [x \in (DOMAIN m) \cup {k} |-> IF x = k THEN v ELSE m[x]]

----------------------------------------------------------------------------
(* mapping.cpp: MappingEngine::get_value.  Each section block either       *)
(* returns or falls through to the blocks after it.                        *)

Return(x) == <<"return", x>>

FallThrough == <<"fallthrough">>

get_aero(orsf, parts) ==
    IF parts[2] = "aero" /\ has_value(orsf.setup.aero)
    THEN LET aero == value(orsf.setup.aero) IN
         IF Len(parts) < 3 THEN Return(nullopt)
         ELSE IF parts[3] \in (DOMAIN Aerodynamics) THEN Return(aero[parts[3]])
         ELSE FallThrough
    ELSE FallThrough

CornerGetFields ==
    {"camber_deg", "toe_deg", "caster_deg", "spring_rate_n_mm", "ride_height_mm",
     "bumpstop_gap_mm", "bumpstop_rate_n_mm",
     "damper_bump_slow_n_s_m", "damper_bump_fast_n_s_m",
     "damper_rebound_slow_n_s_m", "damper_rebound_fast_n_s_m"}

SuspensionGetFields == {"front_arb", "rear_arb", "heave_spring_n_mm"}

get_suspension(orsf, parts) ==
    IF parts[2] = "suspension" /\ has_value(orsf.setup.suspension)
    THEN LET susp == value(orsf.setup.suspension)
             \* const CornerSuspension* corner: nullopt stands for nullptr
             corner == IF parts[3] \in CornerNames THEN susp[parts[3]] ELSE nullopt
         IN
         IF Len(parts) < 3 THEN Return(nullopt)
         ELSE IF has_value(corner) /\ Len(parts) >= 4 /\ parts[4] \in CornerGetFields
              THEN Return(value(corner)[parts[4]])
         ELSE IF parts[3] \in SuspensionGetFields THEN Return(susp[parts[3]])
         ELSE FallThrough
    ELSE FallThrough

get_tires(orsf, parts) ==
    IF parts[2] = "tires" /\ has_value(orsf.setup.tires)
    THEN LET tires == value(orsf.setup.tires) IN
         IF Len(parts) < 3 THEN Return(nullopt)
         ELSE IF parts[3] \in TiresNumericFields THEN Return(tires[parts[3]])
         ELSE FallThrough
    ELSE FallThrough

get_drivetrain(orsf, parts) ==
    IF parts[2] = "drivetrain" /\ has_value(orsf.setup.drivetrain)
    THEN LET dt == value(orsf.setup.drivetrain) IN
         IF Len(parts) < 3 THEN Return(nullopt)
         ELSE IF parts[3] \in {"diff_preload_nm", "diff_power_ramp_pct",
                               "diff_coast_ramp_pct", "final_drive_ratio"}
              THEN Return(dt[parts[3]])
         ELSE IF parts[3] = "lsd_clutch_plates" /\ has_value(dt.lsd_clutch_plates)
              THEN Return(Some(static_cast_double(value(dt.lsd_clutch_plates))))
         ELSE FallThrough
    ELSE FallThrough

get_brakes(orsf, parts) ==
    IF parts[2] = "brakes" /\ has_value(orsf.setup.brakes)
    THEN LET brakes == value(orsf.setup.brakes) IN
         IF Len(parts) < 3 THEN Return(nullopt)
         ELSE IF parts[3] \in BrakesNumericFields THEN Return(brakes[parts[3]])
         ELSE FallThrough
    ELSE FallThrough

get_electronics(orsf, parts) ==
    IF parts[2] = "electronics" /\ has_value(orsf.setup.electronics)
    THEN LET elec == value(orsf.setup.electronics) IN
         IF Len(parts) < 3 THEN Return(nullopt)
         ELSE IF parts[3] \in {"tc_level", "abs_level", "engine_map"}
                 /\ has_value(elec[parts[3]])
              THEN Return(Some(static_cast_double(value(elec[parts[3]]))))
         ELSE IF parts[3] = "pit_limiter_kph" THEN Return(elec.pit_limiter_kph)
         ELSE FallThrough
    ELSE FallThrough

get_fuel(orsf, parts) ==
    IF parts[2] = "fuel" /\ has_value(orsf.setup.fuel)
    THEN LET fuel == value(orsf.setup.fuel) IN
         IF Len(parts) < 3 THEN Return(nullopt)
         ELSE IF parts[3] \in {"start_fuel_l", "per_lap_consumption_l"}
              THEN Return(fuel[parts[3]])
         ELSE IF parts[3] = "stint_target_laps" /\ has_value(fuel.stint_target_laps)
              THEN Return(Some(static_cast_double(value(fuel.stint_target_laps))))
         ELSE FallThrough
    ELSE FallThrough

(* The section blocks in the order of the source *)
get_sections(orsf, parts) ==
    <<get_aero(orsf, parts), get_suspension(orsf, parts), get_tires(orsf, parts),
      get_drivetrain(orsf, parts), get_brakes(orsf, parts),
      get_electronics(orsf, parts), get_fuel(orsf, parts)>>

get_value(orsf, path) ==
    LET parts == split_path(path) IN
    IF parts = <<>> THEN nullopt
    ELSE IF parts[1] # "setup" THEN nullopt
    ELSE IF Len(parts) < 2 THEN nullopt
    ELSE LET blocks == get_sections(orsf, parts)
             returning == {i \in 1..Len(blocks) : blocks[i] # FallThrough}
         IN IF returning = {} THEN nullopt
            ELSE blocks[CHOOSE i \in returning : \A j \in returning : i <= j][2]

----------------------------------------------------------------------------
(* mapping.cpp: MappingEngine::set_value *)

SetFields(section) ==
    CASE section = "aero" -> (DOMAIN Aerodynamics)
      [] section = "tires" -> TiresNumericFields
      [] section = "brakes" -> BrakesNumericFields

set_section(orsf, section, field, v) ==
    LET \* if (!orsf.setup.<section>.has_value()) orsf.setup.<section> = <Struct>{};
        present == IF has_value(orsf.setup[section]) THEN value(orsf.setup[section])
                   ELSE SubsystemStruct(section)
        assigned == IF field \in SetFields(section)
                    THEN [present EXCEPT ![field] = Some(v)]
                    ELSE present
    IN [orsf EXCEPT !.setup[section] = Some(assigned)]

set_value(orsf, path, v) ==
    LET parts == split_path(path) IN
    IF parts = <<>> \/ parts[1] # "setup" \/ Len(parts) < 3 THEN orsf
    ELSE IF parts[2] \in {"aero", "tires", "brakes"}
         THEN set_section(orsf, parts[2], parts[3], v)
    ELSE orsf

----------------------------------------------------------------------------
(* mapping.hpp / mapping.cpp: the flatten helpers *)

add_optional(flat, key, opt) ==
    IF has_value(opt) THEN MapPut(flat, key, static_cast_double(value(opt)))
    ELSE flat

(* add_optional(flat, prefix + "." + fields[i], rec.<fields[i]>) for i = from.. *)
RECURSIVE add_members(_, _, _, _, _)
add_members(flat, prefix, rec, fields, from) ==
    IF from > Len(fields) THEN flat
    ELSE add_members(add_optional(flat, Append(prefix, fields[from]), rec[fields[from]]),
                     prefix, rec, fields, from + 1)

AeroFlattenOrder ==
    <<"front_wing", "rear_wing", "front_downforce_n", "rear_downforce_n",
      "front_ride_height_mm", "rear_ride_height_mm", "rake_mm",
      "brake_duct_front_pct", "brake_duct_rear_pct", "radiator_opening_pct">>

flatten_aero(aero, flat) ==
    IF ~has_value(aero) THEN flat
    ELSE add_members(flat, <<"setup", "aero">>, value(aero), AeroFlattenOrder, 1)

CornerFlattenOrder ==
    <<"camber_deg", "toe_deg", "caster_deg", "spring_rate_n_mm", "ride_height_mm",
      "bumpstop_gap_mm", "bumpstop_rate_n_mm", "packer_mm",
      "damper_bump_slow_n_s_m", "damper_bump_fast_n_s_m",
      "damper_rebound_slow_n_s_m", "damper_rebound_fast_n_s_m">>

flatten_corner(corner, prefix, flat) ==
    IF ~has_value(corner) THEN flat
    ELSE add_members(flat, prefix, value(corner), CornerFlattenOrder, 1)

CornerFlattenSeq == <<"front_left", "front_right", "rear_left", "rear_right">>

RECURSIVE flatten_corners(_, _, _)
flatten_corners(susp, flat, from) ==
    IF from > Len(CornerFlattenSeq) THEN flat
    ELSE flatten_corners(susp,
            flatten_corner(susp[CornerFlattenSeq[from]],
                           <<"setup", "suspension", CornerFlattenSeq[from]>>, flat),
            from + 1)

flatten_suspension(susp, flat) ==
    IF ~has_value(susp) THEN flat
    ELSE add_members(flatten_corners(value(susp), flat, 1),
                     <<"setup", "suspension">>, value(susp),
                     <<"front_arb", "rear_arb", "heave_spring_n_mm", "heave_packer_mm">>, 1)

flatten_tires(tires, flat) ==
    IF ~has_value(tires) THEN flat
    ELSE add_members(flat, <<"setup", "tires">>, value(tires),
                     <<"pressure_fl_kpa", "pressure_fr_kpa", "pressure_rl_kpa",
                       "pressure_rr_kpa", "stagger_mm">>, 1)

flatten_drivetrain(drivetrain, flat) ==
    IF ~has_value(drivetrain) THEN flat
    ELSE add_members(flat, <<"setup", "drivetrain">>, value(drivetrain),
                     <<"diff_preload_nm", "diff_power_ramp_pct", "diff_coast_ramp_pct",
                       "final_drive_ratio", "lsd_clutch_plates">>, 1)

(* for (size_t i = 0; i < ratios.size(); ++i) flat["setup.gearing.gear_" + i] = ratios[i] *)
RECURSIVE flatten_ratios(_, _, _)
flatten_ratios(ratios, flat, i) ==
    IF i >= Len(ratios) THEN flat
    ELSE flatten_ratios(ratios, MapPut(flat, gear_key(i), ratios[i + 1]), i + 1)

flatten_gearing(gearing, flat) ==
    IF ~has_value(gearing) THEN flat
    ELSE LET g == value(gearing)
             withRatios == IF has_value(g.gear_ratios)
                           THEN flatten_ratios(value(g.gear_ratios), flat, 0)
                           ELSE flat
         IN add_optional(withRatios, <<"setup", "gearing", "reverse_ratio">>,
                         g.reverse_ratio)

flatten_brakes(brakes, flat) ==
    IF ~has_value(brakes) THEN flat
    ELSE add_members(flat, <<"setup", "brakes">>, value(brakes),
                     <<"brake_bias_pct", "max_force_n">>, 1)

(* flatten_electronics, were tc2_level left out as get_value leaves it out *)
flatten_electronics_without_tc2(electronics, flat) ==
    IF ~has_value(electronics) THEN flat
    ELSE add_members(flat, <<"setup", "electronics">>, value(electronics),
                     <<"tc_level", "abs_level", "engine_map",
                       "engine_brake_level", "pit_limiter_kph">>, 1)

flatten_electronics(electronics, flat) ==
    IF ~has_value(electronics) THEN flat
    ELSE add_members(flat, <<"setup", "electronics">>, value(electronics),
                     <<"tc_level", "tc2_level", "abs_level", "engine_map",
                       "engine_brake_level", "pit_limiter_kph">>, 1)

flatten_fuel(fuel, flat) ==
    IF ~has_value(fuel) THEN flat
    ELSE add_members(flat, <<"setup", "fuel">>, value(fuel),
                     <<"start_fuel_l", "per_lap_consumption_l", "stint_target_laps",
                       "mixture_setting">>, 1)

flatten_orsf(orsf) ==
    LET f1 == flatten_aero(orsf.setup.aero, EmptyMap)
        f2 == flatten_suspension(orsf.setup.suspension, f1)
        f3 == flatten_tires(orsf.setup.tires, f2)
        f4 == flatten_drivetrain(orsf.setup.drivetrain, f3)
        f5 == flatten_gearing(orsf.setup.gearing, f4)
        f6 == flatten_brakes(orsf.setup.brakes, f5)
        f7 == flatten_electronics(orsf.setup.electronics, f6)
    IN flatten_fuel(orsf.setup.fuel, f7)

----------------------------------------------------------------------------
(* mapping.cpp: MappingEngine::inflate_orsf.  The loop visits the entries  *)
(* of the std::map in the order of their keys (std::string's operator<);   *)
(* KeyOrder lists the keys the model uses in that order.                   *)

KeyOrder ==
    << <<"other", "aero", "front_wing">>,
       <<"setup", "aero", "bogus">>,
       <<"setup", "aero", "front_wing">>,
       <<"setup", "aero", "front_wing", "x">>,
       <<"setup", "brakes", "brake_bias_pct">>,
       <<"setup", "drivetrain", "final_drive_ratio">>,
       <<"setup", "gearing", "gear_0">>,
       <<"setup", "suspension", "front_left", "camber_deg">>,
       <<"setup", "tires", "pressure_fl_kpa">> >>

RECURSIVE inflate_loop(_, _, _)
inflate_loop(result, flat, from) ==
    IF from > Len(KeyOrder) THEN result
    ELSE IF KeyOrder[from] \in DOMAIN flat
         THEN inflate_loop(set_value(result, KeyOrder[from], flat[KeyOrder[from]]),
                           flat, from + 1)
    ELSE inflate_loop(result, flat, from + 1)

inflate_orsf(flat, template_orsf) == inflate_loop(template_orsf, flat, 1)

----------------------------------------------------------------------------
(* utils.cpp: Transform.  A TransformFunc is the record of its constructor *)
(* and captured arguments; Invoke calls it, and Apply is the value the     *)
(* call returns.                                                           *)

(* A call either returns a value or throws std::runtime_error(what) *)
Returns(x) == [ok |-> TRUE, val |-> x]

Throws(what) == [ok |-> FALSE, what |-> what]

identity == [kind |-> "identity"]

scale(factor) == [kind |-> "scale", factor |-> factor]

offset(amount) == [kind |-> "offset", amount |-> amount]

linear(scale_factor, offset_amount) ==
    [kind |-> "linear", scale_factor |-> scale_factor, offset_amount |-> offset_amount]

invert == [kind |-> "invert"]

negate == [kind |-> "negate"]

compose(transforms) == [kind |-> "compose", transforms |-> transforms]

RECURSIVE Invoke(_, _)
RECURSIVE compose_loop(_, _, _)

(* The loop of compose, were it to walk the vector from its back *)
RECURSIVE compose_loop_from_back(_, _, _)
compose_loop_from_back(transforms, from, result) ==
    IF from > Len(transforms) THEN Returns(result)
    ELSE LET step == Invoke(transforms[Len(transforms) + 1 - from], result) IN
         IF step.ok THEN compose_loop_from_back(transforms, from + 1, step.val)
         ELSE step

(* The loop of the lambda compose returns, from transforms[from] on `result` *)
compose_loop(transforms, from, result) ==
    IF from > Len(transforms) THEN Returns(result)
    ELSE LET step == Invoke(transforms[from], result) IN
         IF step.ok THEN compose_loop(transforms, from + 1, step.val)
         ELSE step

(* The values are the integers of the documents: |x| < 1e-10 is x = 0, and *)
(* 1.0 / x is the q with q * x = 1.                                        *)
Invoke(t, x) ==
    CASE t.kind = "identity" -> Returns(x)
      [] t.kind = "scale" -> Returns(x * t.factor)
      [] t.kind = "offset" -> Returns(x + t.amount)
      [] t.kind = "linear" -> Returns(x * t.scale_factor + t.offset_amount)
      [] t.kind = "invert" ->
           IF x = 0 THEN Throws(<<"Cannot invert zero value">>)
           ELSE Returns(CHOOSE q \in {-1, 1} : q * x = 1)
      [] t.kind = "negate" -> Returns(-x)
      [] t.kind = "compose" -> compose_loop(t.transforms, 1, x)

Apply(t, x) == Invoke(t, x).val

----------------------------------------------------------------------------
(* mapping.hpp: FieldMapping; mapping.cpp: map_to_native / map_to_orsf     *)

FieldMapping(orsf, native, to_nat, to_ors, req) ==
    [orsf_path |-> orsf, native_key |-> native, to_native |-> to_nat,
     to_orsf |-> to_ors, required |-> req]

(* One iteration of the loop of map_to_native on `native` *)
map_to_native_step(orsf, mapping, native) ==
    LET v == get_value(orsf, mapping.orsf_path) IN
    IF has_value(v)
    THEN LET mapped_value == IF has_value(mapping.to_native)
                             THEN Invoke(value(mapping.to_native), value(v))
                             ELSE Returns(value(v))
         IN IF mapped_value.ok
            THEN Returns(MapPut(native, mapping.native_key, mapped_value.val))
            ELSE mapped_value
    ELSE IF mapping.required
         THEN Throws(<<"Required field missing: ", mapping.orsf_path>>)
    ELSE Returns(native)

(* The loop, were it to leave after the first entry it emits *)
RECURSIVE map_to_native_loop_first_entry(_, _, _, _)
map_to_native_loop_first_entry(orsf, mappings, from, native) ==
    IF from > Len(mappings) \/ native # EmptyMap THEN Returns(native)
    ELSE LET step == map_to_native_step(orsf, mappings[from], native) IN
         IF step.ok THEN map_to_native_loop_first_entry(orsf, mappings, from + 1, step.val)
         ELSE step

RECURSIVE map_to_native_loop(_, _, _, _)
map_to_native_loop(orsf, mappings, from, native) ==
    IF from > Len(mappings) THEN Returns(native)
    ELSE LET step == map_to_native_step(orsf, mappings[from], native) IN
         IF step.ok THEN map_to_native_loop(orsf, mappings, from + 1, step.val)
         ELSE step

map_to_native(orsf, mappings) == map_to_native_loop(orsf, mappings, 1, EmptyMap)

(* The iteration, were it to write the native value untransformed *)
map_to_orsf_step_untransformed(native, mapping, result) ==
    IF mapping.native_key \in DOMAIN native
    THEN Returns(set_value(result, mapping.orsf_path, native[mapping.native_key]))
    ELSE IF mapping.required
         THEN Throws(<<"Required native field missing: ", mapping.native_key>>)
    ELSE Returns(result)

(* One iteration of the loop of map_to_orsf on `result` *)
map_to_orsf_step(native, mapping, result) ==
    IF mapping.native_key \in DOMAIN native
    THEN LET v == IF has_value(mapping.to_orsf)
                  THEN Invoke(value(mapping.to_orsf), native[mapping.native_key])
                  ELSE Returns(native[mapping.native_key])
         IN IF v.ok THEN Returns(set_value(result, mapping.orsf_path, v.val))
            ELSE v
    ELSE IF mapping.required
         THEN Throws(<<"Required native field missing: ", mapping.native_key>>)
    ELSE Returns(result)

(* The loop, were it to return what it wrote so far when an iteration     *)
(* throws                                                                   *)
RECURSIVE map_to_orsf_loop_partial(_, _, _, _)
map_to_orsf_loop_partial(native, mappings, from, result) ==
    IF from > Len(mappings) THEN Returns(result)
    ELSE LET step == map_to_orsf_step(native, mappings[from], result) IN
         IF step.ok THEN map_to_orsf_loop_partial(native, mappings, from + 1, step.val)
         ELSE Returns(result)

RECURSIVE map_to_orsf_loop(_, _, _, _)
map_to_orsf_loop(native, mappings, from, result) ==
    IF from > Len(mappings) THEN Returns(result)
    ELSE LET step == map_to_orsf_step(native, mappings[from], result) IN
         IF step.ok THEN map_to_orsf_loop(native, mappings, from + 1, step.val)
         ELSE step

map_to_orsf(native, mappings, template_orsf) ==
    map_to_orsf_loop(native, mappings, 1, template_orsf)

----------------------------------------------------------------------------
(* The canonical leaf paths of the path grammar (spec 4.4 over the numeric *)
(* members of core.hpp) and the value a document holds at one.             *)

SubsystemNumericFields(s) ==
    CASE s = "aero" -> (DOMAIN Aerodynamics)
      [] s = "suspension" -> SuspensionSharedFields
      [] s = "tires" -> TiresNumericFields
      [] s = "drivetrain" -> (DOMAIN Drivetrain)
      [] s = "gearing" -> {"reverse_ratio"}
      [] s = "brakes" -> BrakesNumericFields
      [] s = "electronics" -> (DOMAIN Electronics)
      [] s = "fuel" -> (DOMAIN Fuel)

Subsystems ==
    {"aero", "suspension", "tires", "drivetrain", "gearing", "brakes",
     "electronics", "fuel"}

GearPaths == {gear_key(i) : i \in 0..(Len(GearNames) - 1)}

SubsystemLeafPaths ==
    UNION {{<<"setup", s, f>> : f \in SubsystemNumericFields(s)} : s \in Subsystems}

CornerLeafPaths ==
    {<<"setup", "suspension", c, f>> : c \in CornerNames, f \in (DOMAIN CornerSuspension)}

CanonicalPaths == SubsystemLeafPaths \cup CornerLeafPaths \cup GearPaths

gear_index(p) == CHOOSE i \in 0..(Len(GearNames) - 1) : gear_key(i) = p

leaf_value(orsf, p) ==
    IF p \in GearPaths
    THEN IF has_value(orsf.setup.gearing)
            /\ has_value(value(orsf.setup.gearing).gear_ratios)
            /\ gear_index(p) < Len(value(value(orsf.setup.gearing).gear_ratios))
         THEN Some(value(value(orsf.setup.gearing).gear_ratios)[gear_index(p) + 1])
         ELSE nullopt
    ELSE IF p \in CornerLeafPaths
    THEN IF has_value(orsf.setup.suspension)
            /\ has_value(value(orsf.setup.suspension)[p[3]])
         THEN value(value(orsf.setup.suspension)[p[3]])[p[4]]
         ELSE nullopt
    ELSE IF p \in SubsystemLeafPaths /\ has_value(orsf.setup[p[2]])
    THEN value(orsf.setup[p[2]])[p[3]]
    ELSE nullopt

PopulatedLeafPaths(orsf) == {p \in CanonicalPaths : has_value(leaf_value(orsf, p))}

----------------------------------------------------------------------------
(* validator.hpp / validator.cpp: a finding, and the check helpers, each   *)
(* returning `errors` with what it pushed back. A field path is the tuple  *)
(* of its '.'-separated parts, a message or an expected / actual text the  *)
(* tuple of the pieces it is concatenated from.                            *)

ValidationError(sev, c, f, msg, exp, act) ==
    [severity |-> sev, code |-> c, field |-> f, message |-> msg,
     expected |-> exp, actual |-> act]

(* std::to_string(double), kept apart from the number it prints *)
to_string(v) == <<"to_string", v>>

check_required(field, is_present, errors) ==
    IF ~is_present
    THEN Append(errors, ValidationError("Error", "Required", field,
                                        <<"Required field is missing">>, nullopt, nullopt))
    ELSE errors

(* check_range, were the two limits to be out of range *)
check_range_limits_excluded(field, v, min, max, errors, severity) ==
    IF v <= min \/ v >= max
    THEN Append(errors, ValidationError(severity, "OutOfRange", field,
                                        <<"Value out of range">>,
                                        Some(<<min, " to ", max>>), Some(to_string(v))))
    ELSE errors

(* Validator::check_range *)
check_range(field, v, min, max, errors, severity) ==
    IF v < min \/ v > max
    THEN Append(errors, ValidationError(severity, "OutOfRange", field,
                                        <<"Value out of range">>,
                                        Some(<<min, " to ", max>>), Some(to_string(v))))
    ELSE errors

check_percentage(field, v, errors) == check_range(field, v, 0, 100, errors, "Error")

check_positive(field, v, errors) ==
    IF v <= 0
    THEN Append(errors, ValidationError("Error", "OutOfRange", field,
                                        <<"Value must be positive">>,
                                        Some(<<"> 0">>), Some(to_string(v))))
    ELSE errors

check_non_negative(field, v, errors) ==
    IF v < 0
    THEN Append(errors, ValidationError("Error", "OutOfRange", field,
                                        <<"Value must be non-negative">>,
                                        Some(<<">= 0">>), Some(to_string(v))))
    ELSE errors

(* The timestamps a document is given, in std::string order, and the ones  *)
(* the pattern of DateTimeUtils::is_valid_iso8601 matches.                 *)
Timestamps == <<"", "2023-01-01T00:00:00Z", "2024-01-01T00:00:00Z", "yesterday">>

string_less(a, b) ==
    \E i, j \in DOMAIN Timestamps : Timestamps[i] = a /\ Timestamps[j] = b /\ i < j

is_valid_iso8601(timestamp) ==
    timestamp \in {"2023-01-01T00:00:00Z", "2024-01-01T00:00:00Z"}

check_iso8601(field, v, errors) ==
    IF ~is_valid_iso8601(v)
    THEN Append(errors, ValidationError("Warning", "InvalidFormat", field,
                                        <<"Invalid ISO8601 timestamp format">>,
                                        Some(<<"YYYY-MM-DDTHH:MM:SS(.sss)?(Z|[+-]HH:MM)?">>),
                                        Some(<<v>>)))
    ELSE errors

(* if (rec.f.has_value()) check_...(prefix + "." + f, rec.f.value(), errors) *)
if_positive(rec, prefix, f, errors) ==
    IF has_value(rec[f]) THEN check_positive(Append(prefix, f), value(rec[f]), errors)
    ELSE errors

if_non_negative(rec, prefix, f, errors) ==
    IF has_value(rec[f]) THEN check_non_negative(Append(prefix, f), value(rec[f]), errors)
    ELSE errors

if_percentage(rec, prefix, f, errors) ==
    IF has_value(rec[f]) THEN check_percentage(Append(prefix, f), value(rec[f]), errors)
    ELSE errors

if_range(rec, prefix, f, min, max, errors, severity) ==
    IF has_value(rec[f])
    THEN check_range(Append(prefix, f), value(rec[f]), min, max, errors, severity)
    ELSE errors

(* The sections of Validator::validate *)

validate_schema(orsf, errors) ==
    IF orsf.schema # "orsf://v1"
    THEN Append(errors, ValidationError("Error", "SchemaInvalid", <<"schema">>,
                                        <<"Invalid schema version">>,
                                        Some(<<"orsf://v1">>), Some(<<orsf.schema>>)))
    ELSE errors

validate_metadata(metadata, errors) ==
    LET e1 == check_required(<<"metadata", "id">>, metadata.id # "", errors)
        e2 == check_required(<<"metadata", "name">>, metadata.name # "", e1)
        e3 == check_required(<<"metadata", "created_at">>, metadata.created_at # "", e2)
        e4 == IF metadata.created_at # ""
              THEN check_iso8601(<<"metadata", "created_at">>, metadata.created_at, e3)
              ELSE e3
        e5 == IF has_value(metadata.updated_at) /\ value(metadata.updated_at) # ""
              THEN check_iso8601(<<"metadata", "updated_at">>, value(metadata.updated_at), e4)
              ELSE e4
    IN IF has_value(metadata.updated_at)
          /\ string_less(value(metadata.updated_at), metadata.created_at)
       THEN Append(e5, ValidationError("Warning", "Incompatible",
                                       <<"metadata", "updated_at">>,
                                       <<"Updated timestamp is before created timestamp">>,
                                       nullopt, nullopt))
       ELSE e5

valid_classes ==
    {"GT3", "GTE", "LMP2", "LMDh", "GT4", "TCR", "F1", "F2", "F3", "F4", "Formula"}

validate_car(car, errors) ==
    LET e1 == check_required(<<"car", "make">>, car.make # "", errors)
        e2 == check_required(<<"car", "model">>, car.model # "", e1)
    IN IF has_value(car.car_class) /\ value(car.car_class) \notin valid_classes
       THEN Append(e2, ValidationError("Warning", "InvalidFormat", <<"car", "class">>,
                                       <<"Unknown car class: ", value(car.car_class)>>,
                                       nullopt, nullopt))
       ELSE e2

valid_levels == {"green", "low", "medium", "high", "saturated"}

validate_context(context, errors) ==
    IF ~has_value(context) THEN errors
    ELSE LET ctx == value(context)
             e1 == if_range(ctx, <<"context">>, "ambient_temp_c", -50, 70, errors, "Warning")
             e2 == if_range(ctx, <<"context">>, "track_temp_c", -20, 80, e1, "Warning")
             e3 == if_range(ctx, <<"context">>, "wetness", 0, 1, e2, "Error")
         IN IF has_value(ctx.rubber) /\ value(ctx.rubber) \notin valid_levels
            THEN Append(e3, ValidationError("Warning", "InvalidFormat",
                                            <<"context", "rubber">>,
                                            <<"Unknown rubber level: ", value(ctx.rubber)>>,
                                            nullopt, nullopt))
            ELSE e3

validate_aero(aero, errors) ==
    IF ~has_value(aero) THEN errors
    ELSE LET a == value(aero)
             pfx == <<"setup", "aero">>
             e1 == if_positive(a, pfx, "front_ride_height_mm", errors)
             e2 == if_positive(a, pfx, "rear_ride_height_mm", e1)
             e3 == if_percentage(a, pfx, "brake_duct_front_pct", e2)
             e4 == if_percentage(a, pfx, "brake_duct_rear_pct", e3)
             e5 == if_percentage(a, pfx, "radiator_opening_pct", e4)
             e6 == if_non_negative(a, pfx, "front_downforce_n", e5)
         IN if_non_negative(a, pfx, "rear_downforce_n", e6)

validate_corner_suspension(corner, corner_name, errors) ==
    IF ~has_value(corner) THEN errors
    ELSE LET c == value(corner)
             e1 == if_range(c, corner_name, "camber_deg", -10, 5, errors, "Warning")
             e2 == if_positive(c, corner_name, "spring_rate_n_mm", e1)
             e3 == if_positive(c, corner_name, "ride_height_mm", e2)
             e4 == if_non_negative(c, corner_name, "bumpstop_gap_mm", e3)
             e5 == if_positive(c, corner_name, "bumpstop_rate_n_mm", e4)
             e6 == if_non_negative(c, corner_name, "damper_bump_slow_n_s_m", e5)
             e7 == if_non_negative(c, corner_name, "damper_bump_fast_n_s_m", e6)
             e8 == if_non_negative(c, corner_name, "damper_rebound_slow_n_s_m", e7)
         IN if_non_negative(c, corner_name, "damper_rebound_fast_n_s_m", e8)

(* validate_suspension, were the shared fields checked before the corners *)
validate_suspension_shared_first(suspension, errors) ==
    IF ~has_value(suspension) THEN errors
    ELSE LET s == value(suspension)
             pfx == <<"setup", "suspension">>
             e0 == if_positive(s, pfx, "heave_spring_n_mm", errors)
             e1 == validate_corner_suspension(s.front_left, Append(pfx, "front_left"), e0)
             e2 == validate_corner_suspension(s.front_right, Append(pfx, "front_right"), e1)
             e3 == validate_corner_suspension(s.rear_left, Append(pfx, "rear_left"), e2)
         IN validate_corner_suspension(s.rear_right, Append(pfx, "rear_right"), e3)

(* Validator::validate_suspension *)
validate_suspension(suspension, errors) ==
    IF ~has_value(suspension) THEN errors
    ELSE LET s == value(suspension)
             pfx == <<"setup", "suspension">>
             e1 == validate_corner_suspension(s.front_left, Append(pfx, "front_left"), errors)
             e2 == validate_corner_suspension(s.front_right, Append(pfx, "front_right"), e1)
             e3 == validate_corner_suspension(s.rear_left, Append(pfx, "rear_left"), e2)
             e4 == validate_corner_suspension(s.rear_right, Append(pfx, "rear_right"), e3)
         IN if_positive(s, pfx, "heave_spring_n_mm", e4)

validate_tires(tires, errors) ==
    IF ~has_value(tires) THEN errors
    ELSE LET t == value(tires)
             pfx == <<"setup", "tires">>
             e1 == if_range(t, pfx, "pressure_fl_kpa", 50, 400, errors, "Warning")
             e2 == if_range(t, pfx, "pressure_fr_kpa", 50, 400, e1, "Warning")
             e3 == if_range(t, pfx, "pressure_rl_kpa", 50, 400, e2, "Warning")
         IN if_range(t, pfx, "pressure_rr_kpa", 50, 400, e3, "Warning")

validate_drivetrain(drivetrain, errors) ==
    IF ~has_value(drivetrain) THEN errors
    ELSE LET d == value(drivetrain)
             pfx == <<"setup", "drivetrain">>
             e1 == if_non_negative(d, pfx, "diff_preload_nm", errors)
             e2 == if_percentage(d, pfx, "diff_power_ramp_pct", e1)
             e3 == if_percentage(d, pfx, "diff_coast_ramp_pct", e2)
             e4 == if_positive(d, pfx, "final_drive_ratio", e3)
         IN IF has_value(d.lsd_clutch_plates) /\ value(d.lsd_clutch_plates) <= 0
            THEN Append(e4, ValidationError("Error", "OutOfRange",
                                            Append(pfx, "lsd_clutch_plates"),
                                            <<"LSD clutch plates must be positive">>,
                                            nullopt, nullopt))
            ELSE e4

(* "gear_ratios[" + std::to_string(i) + "]" *)
GearRatioNames ==
    <<"gear_ratios[0]", "gear_ratios[1]", "gear_ratios[2]", "gear_ratios[3]",
      "gear_ratios[4]", "gear_ratios[5]">>

(* The loop over the ratios, were it to accept a ratio of zero *)
RECURSIVE validate_ratios_zero_accepted(_, _, _)
validate_ratios_zero_accepted(ratios, i, errors) ==
    IF ~(i < Len(ratios)) THEN errors
    ELSE validate_ratios_zero_accepted(ratios, i + 1,
            IF ratios[i + 1] < 0
            THEN Append(errors, ValidationError("Error", "OutOfRange",
                                    <<"setup", "gearing", GearRatioNames[i + 1]>>,
                                    <<"Gear ratio must be positive">>, nullopt, nullopt))
            ELSE errors)

(* for (size_t i = 0; i < ratios.size(); ++i) if (ratios[i] <= 0.0) ... *)
RECURSIVE validate_ratios(_, _, _)
validate_ratios(ratios, i, errors) ==
    IF ~(i < Len(ratios)) THEN errors
    ELSE validate_ratios(ratios, i + 1,
            IF ratios[i + 1] <= 0
            THEN Append(errors, ValidationError("Error", "OutOfRange",
                                    <<"setup", "gearing", GearRatioNames[i + 1]>>,
                                    <<"Gear ratio must be positive">>, nullopt, nullopt))
            ELSE errors)

validate_gearing(gearing, errors) ==
    IF ~has_value(gearing) THEN errors
    ELSE LET g == value(gearing)
             e1 == IF has_value(g.gear_ratios) /\ Len(value(g.gear_ratios)) = 0
                   THEN Append(errors, ValidationError("Warning", "InvalidFormat",
                                           <<"setup", "gearing", "gear_ratios">>,
                                           <<"Gear ratios array is empty">>, nullopt, nullopt))
                   ELSE errors
             e2 == IF has_value(g.gear_ratios)
                   THEN validate_ratios(value(g.gear_ratios), 0, e1)
                   ELSE e1
         IN if_positive(g, <<"setup", "gearing">>, "reverse_ratio", e2)

validate_brakes(brakes, errors) ==
    IF ~has_value(brakes) THEN errors
    ELSE LET b == value(brakes)
             e1 == if_percentage(b, <<"setup", "brakes">>, "brake_bias_pct", errors)
         IN if_positive(b, <<"setup", "brakes">>, "max_force_n", e1)

validate_electronics(electronics, errors) ==
    IF ~has_value(electronics) THEN errors
    ELSE if_positive(value(electronics), <<"setup", "electronics">>, "pit_limiter_kph", errors)

validate_fuel(fuel, errors) ==
    IF ~has_value(fuel) THEN errors
    ELSE LET f == value(fuel)
             pfx == <<"setup", "fuel">>
             e1 == if_non_negative(f, pfx, "start_fuel_l", errors)
             e2 == if_positive(f, pfx, "per_lap_consumption_l", e1)
         IN IF has_value(f.stint_target_laps) /\ value(f.stint_target_laps) <= 0
            THEN Append(e2, ValidationError("Error", "OutOfRange",
                                            Append(pfx, "stint_target_laps"),
                                            <<"Stint target laps must be positive">>,
                                            nullopt, nullopt))
            ELSE e2

validate_setup(setup, errors) ==
    LET e1 == validate_aero(setup.aero, errors)
        e2 == validate_suspension(setup.suspension, e1)
        e3 == validate_tires(setup.tires, e2)
        e4 == validate_drivetrain(setup.drivetrain, e3)
        e5 == validate_gearing(setup.gearing, e4)
        e6 == validate_brakes(setup.brakes, e5)
        e7 == validate_electronics(setup.electronics, e6)
    IN validate_fuel(setup.fuel, e7)

(* The cross-field check, were its two limits to belong to the warned      *)
(* ranges                                                                  *)
validate_cross_field_inclusive(orsf, errors) ==
    IF has_value(orsf.context)
       /\ has_value(value(orsf.context).ambient_temp_c)
       /\ has_value(value(orsf.context).track_temp_c)
    THEN LET ambient == value(value(orsf.context).ambient_temp_c)
             track == value(value(orsf.context).track_temp_c)
         IN IF track <= ambient - 5 \/ track >= ambient + 40
            THEN Append(errors, ValidationError("Warning", "Incompatible",
                           <<"context", "track_temp_c">>,
                           <<"Track temperature is incompatible with ambient temperature">>,
                           nullopt, nullopt))
            ELSE errors
    ELSE errors

(* Validator::validate_cross_field *)
validate_cross_field(orsf, errors) ==
    IF has_value(orsf.context)
       /\ has_value(value(orsf.context).ambient_temp_c)
       /\ has_value(value(orsf.context).track_temp_c)
    THEN LET ambient == value(value(orsf.context).ambient_temp_c)
             track == value(value(orsf.context).track_temp_c)
             e1 == IF track < ambient - 5
                   THEN Append(errors, ValidationError("Warning", "Incompatible",
                           <<"context", "track_temp_c">>,
                           <<"Track temperature is significantly lower than ambient temperature">>,
                           nullopt, nullopt))
                   ELSE errors
         IN IF track > ambient + 40
            THEN Append(e1, ValidationError("Warning", "Incompatible",
                           <<"context", "track_temp_c">>,
                           <<"Track temperature is unusually high compared to ambient">>,
                           nullopt, nullopt))
            ELSE e1
    ELSE errors

(* validate, were it to return at the first section that reports *)
validate_until_first_finding(orsf) ==
    LET e1 == validate_schema(orsf, <<>>)
        e2 == validate_metadata(orsf.metadata, e1)
        e3 == validate_car(orsf.car, e2)
        e4 == validate_context(orsf.context, e3)
        e5 == validate_setup(orsf.setup, e4)
    IN IF e1 # <<>> THEN e1
       ELSE IF e2 # <<>> THEN e2
       ELSE IF e3 # <<>> THEN e3
       ELSE IF e4 # <<>> THEN e4
       ELSE IF e5 # <<>> THEN e5
       ELSE validate_cross_field(orsf, e5)

(* Validator::validate *)
validate(orsf) ==
    LET e1 == validate_schema(orsf, <<>>)
        e2 == validate_metadata(orsf.metadata, e1)
        e3 == validate_car(orsf.car, e2)
        e4 == validate_context(orsf.context, e3)
        e5 == validate_setup(orsf.setup, e4)
    IN validate_cross_field(orsf, e5)

----------------------------------------------------------------------------
(* core.cpp: ORSF::from_json. A JSON value is a record with its type; an   *)
(* object holds its members as optionals (nullopt: the key is missing).    *)

JsonObject(members) == [type |-> "object", members |-> members]

(* Any other JSON value: its type and, for a string or a number, its text *)
Json(type, text) == [type |-> type, v |-> text]

(* j.value(key, default_value) for a std::string member: the default when *)
(* the key is missing, json::type_error when the value is not a string.    *)
json_value_string(j, key, default_value) ==
    IF ~has_value(j.members[key]) THEN Returns(default_value)
    ELSE IF value(j.members[key]).type = "string" THEN Returns(value(j.members[key]).v)
    ELSE Throws(<<"json::type_error">>)

(* from_json(j, metadata) of NLOHMANN_DEFINE_TYPE_INTRUSIVE_WITH_DEFAULT *)
get_to_metadata(j, default_value) ==
    IF j.type # "object" THEN Throws(<<"json::type_error">>)
    ELSE LET id == json_value_string(j, "id", default_value.id) IN
         IF ~id.ok THEN id
         ELSE Returns([default_value EXCEPT !.id = id.val])

(* j.value(key, default_value) for a std::optional<std::string> member,   *)
(* through adl_serializer<std::optional<T>>::from_json: null is nullopt.   *)
json_value_optional(j, key, default_value) ==
    IF ~has_value(j.members[key]) THEN Returns(default_value)
    ELSE IF value(j.members[key]).type = "null" THEN Returns(nullopt)
    ELSE IF value(j.members[key]).type = "string"
         THEN Returns(Some(value(j.members[key]).v))
    ELSE Throws(<<"json::type_error">>)

(* from_json(j, car) of NLOHMANN_DEFINE_TYPE_INTRUSIVE_WITH_DEFAULT(Car,   *)
(* make, model, variant, car_class, bop_id): each member is read from the  *)
(* key of its own name                                                     *)
get_to_car(j, default_value) ==
    IF j.type # "object" THEN Throws(<<"json::type_error">>)
    ELSE LET make == json_value_string(j, "make", default_value.make)
             car_class == json_value_optional(j, "car_class", default_value.car_class)
         IN IF ~make.ok THEN make
            ELSE IF ~car_class.ok THEN car_class
            ELSE Returns([default_value EXCEPT !.make = make.val,
                                               !.car_class = car_class.val])

(* j.get_to(orsf) on a default-constructed ORSF *)
get_to(j, orsf) ==
    IF j.type # "object" THEN Throws(<<"json::type_error">>)
    ELSE LET schema == json_value_string(j, "schema", orsf.schema)
             metadata == IF has_value(j.members.metadata)
                         THEN get_to_metadata(value(j.members.metadata), orsf.metadata)
                         ELSE Returns(orsf.metadata)
             car == IF has_value(j.members.car)
                    THEN get_to_car(value(j.members.car), orsf.car)
                    ELSE Returns(orsf.car)
         IN IF ~schema.ok THEN schema
            ELSE IF ~metadata.ok THEN metadata
            ELSE IF ~car.ok THEN car
            ELSE Returns([orsf EXCEPT !.schema = schema.val, !.metadata = metadata.val,
                                      !.car = car.val])

(* nlohmann::to_json(j, orsf): every member under the key of its own name, *)
(* an optional as its value or null (adl_serializer<std::optional<T>>)     *)
to_json(orsf) ==
    JsonObject(
      [schema |-> Some(Json("string", orsf.schema)),
       metadata |-> Some(JsonObject([id |-> Some(Json("string", orsf.metadata.id))])),
       car |-> Some(JsonObject(
                 [make |-> Some(Json("string", orsf.car.make)),
                  class |-> nullopt,
                  car_class |-> Some(IF has_value(orsf.car.car_class)
                                     THEN Json("string", value(orsf.car.car_class))
                                     ELSE Json("null", ""))]))])

(* from_json, were it to return whatever it deserialized *)
from_json_unchecked(j) ==
    LET got == get_to(j, ORSF) IN
    IF ~got.ok THEN Throws(<<"Failed to deserialize ORSF: ", got.what>>)
    ELSE Returns(got.val)

(* ORSF::from_json(const json&) *)
from_json(j) ==
    LET got == get_to(j, ORSF) IN
    IF ~got.ok THEN Throws(<<"Failed to deserialize ORSF: ", got.what>>)
    ELSE IF got.val.schema # "orsf://v1"
         THEN Throws(<<"Invalid schema version: ", got.val.schema, " (expected orsf://v1)">>)
    ELSE Returns(got.val)

(* ORSF::from_json(const std::string&): a text is what json::parse makes  *)
(* of it, a JSON value or json::parse_error.                               *)
from_json_string(json_str) ==
    IF ~json_str.parsed.ok
    THEN Throws(<<"Failed to parse JSON: ", json_str.parsed.what>>)
    ELSE from_json(json_str.parsed.val)

----------------------------------------------------------------------------
(* The caller builds its document by direct member assignment, as          *)
(* create_test_setup() does, before it calls an operation.                 *)

Building == call.op = "none" /\ mutations < MaxAssign

NoCall == UNCHANGED <<call, pre, ret, table_, registry>>

(* setup.setup.<s> = <Struct>{}; *)
Emplace(s) ==
    /\ Building
    /\ ~has_value(doc.setup[s])
    /\ doc' = [doc EXCEPT !.setup[s] = Some(SubsystemStruct(s))]
    /\ mutations' = mutations + 1
    /\ NoCall

(* setup.setup.suspension-><c> = CornerSuspension{}; *)
EmplaceCorner(c) ==
    /\ Building
    /\ has_value(doc.setup.suspension)
    /\ ~has_value(value(doc.setup.suspension)[c])
    /\ doc' = [doc EXCEPT !.setup.suspension[1][c] = Some(CornerSuspension)]
    /\ mutations' = mutations + 1
    /\ NoCall

(* setup.setup.<s>-><f> = v; *)
AssignLeaf(s, f, v) ==
    /\ Building
    /\ has_value(doc.setup[s])
    /\ ~has_value(value(doc.setup[s])[f])
    /\ doc' = [doc EXCEPT !.setup[s][1][f] = Some(v)]
    /\ mutations' = mutations + 1
    /\ NoCall

(* setup.setup.suspension-><c>-><f> = v; *)
AssignCornerLeaf(c, f, v) ==
    /\ Building
    /\ has_value(doc.setup.suspension)
    /\ has_value(value(doc.setup.suspension)[c])
    /\ ~has_value(value(value(doc.setup.suspension)[c])[f])
    /\ doc' = [doc EXCEPT !.setup.suspension[1][c][1][f] = Some(v)]
    /\ mutations' = mutations + 1
    /\ NoCall

(* setup.setup.gearing->gear_ratios = {3.5, -2.8, ...}; *)
AssignGearRatioList(ratios) ==
    /\ Building
    /\ has_value(doc.setup.gearing)
    /\ ~has_value(value(doc.setup.gearing).gear_ratios)
    /\ doc' = [doc EXCEPT !.setup.gearing[1].gear_ratios = Some(ratios)]
    /\ mutations' = mutations + 1
    /\ NoCall

(* setup.metadata.id = "test-123"; ... setup.car.model = "911 GT3 R"; *)
AssignIdentity ==
    /\ Building
    /\ doc.metadata.id = ""
    /\ doc' = [doc EXCEPT !.metadata.id = "test-123",
                          !.metadata.name = "Test Setup",
                          !.metadata.created_at = "2024-01-01T00:00:00Z",
                          !.car.make = "Porsche",
                          !.car.model = "911 GT3 R"]
    /\ mutations' = mutations + 1
    /\ NoCall

(* setup.setup.tires->compound = "soft"; *)
AssignCompound ==
    /\ Building
    /\ has_value(doc.setup.tires)
    /\ ~has_value(value(doc.setup.tires).compound)
    /\ doc' = [doc EXCEPT !.setup.tires[1].compound = Some("soft")]
    /\ mutations' = mutations + 1
    /\ NoCall

----------------------------------------------------------------------------
(* The operations of MappingEngine, each called once on the built document *)

Idle == call.op = "none"

GetValue(path) ==
    /\ Idle
    /\ call' = [op |-> "get_value", path |-> path]
    /\ pre' = doc
    /\ ret' = get_value(doc, path)
    /\ UNCHANGED <<doc, mutations, table_, registry>>

SetValue(path, v) ==
    /\ Idle
    /\ call' = [op |-> "set_value", path |-> path, value |-> v]
    /\ pre' = doc
    /\ doc' = set_value(doc, path, v)
    /\ ret' = <<>>
    /\ UNCHANGED <<mutations, table_, registry>>

FlattenOrsf ==
    /\ Idle
    /\ call' = [op |-> "flatten_orsf"]
    /\ pre' = doc
    /\ ret' = flatten_orsf(doc)
    /\ UNCHANGED <<doc, mutations, table_, registry>>

InflateOrsf(flat) ==
    /\ Idle
    /\ call' = [op |-> "inflate_orsf", flat |-> flat]
    /\ pre' = doc
    /\ ret' = inflate_orsf(flat, doc)
    /\ UNCHANGED <<doc, mutations, table_, registry>>

MapToNative(mappings) ==
    /\ Idle
    /\ call' = [op |-> "map_to_native", mappings |-> mappings]
    /\ pre' = doc
    /\ ret' = map_to_native(doc, mappings)
    /\ UNCHANGED <<doc, mutations, table_, registry>>

MapToOrsf(native, mappings) ==
    /\ Idle
    /\ call' = [op |-> "map_to_orsf", native |-> native, mappings |-> mappings]
    /\ pre' = doc
    /\ ret' = map_to_orsf(native, mappings, doc)
    /\ UNCHANGED <<doc, mutations, table_, registry>>

(* native = map_to_native(setup, mappings);                                *)
(* result = map_to_orsf(native, mappings, setup);                          *)
RoundTrip(mappings) ==
    /\ Idle
    /\ map_to_native(doc, mappings).ok
    /\ call' = [op |-> "round_trip", mappings |-> mappings,
                native |-> map_to_native(doc, mappings).val]
    /\ pre' = doc
    /\ ret' = map_to_orsf(map_to_native(doc, mappings).val, mappings, doc)
    /\ UNCHANGED <<doc, mutations, table_, registry>>

----------------------------------------------------------------------------
(* Inputs of the path-addressing specification: the values the caller      *)
(* assigns, the value set_value and the flat maps carry, the leaves and    *)
(* corners the caller fills, the paths that name no leaf and the keys of   *)
(* the flat maps.                                                          *)

Caller ==
    [ assigned |-> {2, 4},
      written |-> {9},
      leaves |->
        {<<"aero", "front_wing">>, <<"suspension", "front_arb">>,
         <<"suspension", "heave_packer_mm">>, <<"tires", "pressure_fl_kpa">>,
         <<"drivetrain", "final_drive_ratio">>, <<"drivetrain", "lsd_clutch_plates">>,
         <<"gearing", "reverse_ratio">>, <<"brakes", "brake_bias_pct">>,
         <<"electronics", "tc_level">>, <<"electronics", "tc2_level">>,
         <<"fuel", "start_fuel_l">>, <<"fuel", "mixture_setting">>},
      corners |-> {"front_left", "rear_right"},
      corner_leaves |-> {"camber_deg", "packer_mm"},
      malformed |->
        { <<"">>,
          <<"setup">>,
          <<"setup", "aero">>,
          <<"setup", "suspension", "front_left">>,
          <<"other", "aero", "front_wing">>,
          <<"setup", "nonexistent", "field">>,
          <<"setup", "aero", "bogus">>,
          <<"setup", "tires", "compound">>,
          <<"setup", "aero", "front_wing", "x">>,
          <<"setup", "aero", "front_wing", "">>,
          <<"setup", "suspension", "front_left", "camber_deg", "x">> },
      flat_keys |->
        { <<"setup", "aero", "front_wing">>,
          <<"setup", "brakes", "brake_bias_pct">>,
          <<"setup", "drivetrain", "final_drive_ratio">>,
          <<"setup", "gearing", "gear_0">>,
          <<"setup", "suspension", "front_left", "camber_deg">>,
          <<"setup", "aero", "front_wing", "x">> } ]

PathPool ==
    {<<"setup", l[1], l[2]>> : l \in Caller.leaves}
    \cup {<<"setup", "suspension", c, f>> : c \in Caller.corners, f \in Caller.corner_leaves}
    \cup {gear_key(i) : i \in 0..MaxGears}
    \cup Caller.malformed

(* The flat maps given to inflate_orsf: at most MaxFlat of the flat keys *)
FlatMaps ==
    UNION {[K -> Caller.written] :
             K \in {S \in SUBSET Caller.flat_keys : Cardinality(S) <= MaxFlat}}

Init ==
    /\ doc = ORSF
    /\ call = [op |-> "none"]
    /\ pre = ORSF
    /\ ret = <<>>
    /\ mutations = 0
    /\ table_ = <<>>
    /\ adapters_ = <<>>
    /\ mutex_ = <<>>
    /\ thread = [t \in 1..MaxThreads |-> [pc |-> "idle"]]
    /\ calls = 0

Next ==
    \/ \E s \in Subsystems : Emplace(s)
    \/ \E c \in Caller.corners : EmplaceCorner(c)
    \/ \E l \in Caller.leaves, v \in Caller.assigned : AssignLeaf(l[1], l[2], v)
    \/ \E c \in Caller.corners, f \in Caller.corner_leaves, v \in Caller.assigned :
          AssignCornerLeaf(c, f, v)
    \/ \E n \in 0..MaxGears : AssignGearRatioList([i \in 1..n |-> 2 + i])
    \/ AssignCompound
    \/ \E path \in PathPool : GetValue(path)
    \/ \E path \in PathPool, v \in Caller.written : SetValue(path, v)
    \/ FlattenOrsf
    \/ \E flat \in FlatMaps : InflateOrsf(flat)

Spec == Init /\ [][Next]_vars

----------------------------------------------------------------------------
(* Inputs of the mapping specification: the adapter's declared mappings,   *)
(* as test_mapping.cpp declares them, and the native maps it is given.     *)

MappingPool ==
    LET FrontWing == <<"setup", "aero", "front_wing">>
        BrakeBias == <<"setup", "brakes", "brake_bias_pct">>
        FrontWingX == <<"setup", "aero", "front_wing", "x">>
        Mixture == <<"setup", "fuel", "mixture_setting">>
    IN  { FieldMapping(FrontWing, <<"k1">>, nullopt, nullopt, FALSE),
          FieldMapping(FrontWing, <<"k1">>, Some(offset(1)), Some(offset(-1)), FALSE),
          FieldMapping(BrakeBias, <<"k1">>, Some(negate), Some(negate), TRUE),
          FieldMapping(BrakeBias, <<"k2">>, Some(scale(2)), nullopt, FALSE),
          FieldMapping(Mixture, <<"k3">>, nullopt, nullopt, FALSE),
          FieldMapping(FrontWingX, <<"k3">>, nullopt, nullopt, FALSE) }

MappingLists == UNION {[1..n -> MappingPool] : n \in 0..MaxMappings}

(* The native maps given to map_to_orsf: at most MaxFlat of the keys *)
NativeMaps ==
    UNION {[K -> {5}] :
             K \in {S \in SUBSET {<<"k1">>, <<"k2">>, <<"k3">>} : Cardinality(S) <= MaxFlat}}

NextMap ==
    \/ \E s \in {"aero", "brakes", "fuel"} : Emplace(s)
    \/ \E l \in {<<"aero", "front_wing">>, <<"brakes", "brake_bias_pct">>,
                 <<"fuel", "mixture_setting">>}, v \in Caller.assigned :
          AssignLeaf(l[1], l[2], v)
    \/ AssignIdentity
    \/ \E m \in MappingLists : MapToNative(m)
    \/ \E native \in NativeMaps, m \in MappingLists : MapToOrsf(native, m)
    \/ \E m \in MappingLists : RoundTrip(m)

SpecMap == Init /\ [][NextMap]_vars

----------------------------------------------------------------------------
(* Properties of path addressing, flatten and inflate (under Spec)         *)

(* C1: after set_value(doc, path, v) on a path of the path grammar,        *)
(* get_value(doc, path) returns v, also when the container was absent.     *)
C1_SetThenGet ==
    (call.op = "set_value" /\ call.path \in CanonicalPaths)
        => get_value(doc, call.path) = Some(call.value)

(* C2: flatten_orsf(inflate_orsf(flat, template)) holds every key of a     *)
(* flat map of canonical leaf paths with exactly the value flat gave it.   *)
C2_FlattenInflateRestores ==
    (call.op = "inflate_orsf" /\ DOMAIN call.flat \subseteq CanonicalPaths)
        => \A k \in DOMAIN call.flat :
              /\ k \in DOMAIN flatten_orsf(ret)
              /\ flatten_orsf(ret)[k] = call.flat[k]

(* C8: the key set of flatten_orsf(doc) is exactly the set of paths of the *)
(* numeric leaves that hold a value inside present subsystems (one key per *)
(* gear ratio), each mapped to the leaf's value; absent subsystems,        *)
(* corners and leaves contribute no key; the document is not modified.     *)
C8_FlattenIsPopulatedLeaves ==
    call.op = "flatten_orsf"
        => /\ DOMAIN ret = PopulatedLeafPaths(pre)
           /\ \A k \in DOMAIN ret : Some(ret[k]) = leaf_value(pre, k)
           /\ doc = pre

(* C8 witness: flatten_orsf ran on a document with a gear ratio, another   *)
(* populated leaf, an empty leaf in a present subsystem, an absent corner  *)
(* and an absent subsystem.                                                *)
C8_Witness ==
    /\ call.op = "flatten_orsf"
    /\ gear_key(0) \in DOMAIN ret
    /\ Cardinality(DOMAIN ret) >= 2
    /\ has_value(doc.setup.suspension)
    /\ ~has_value(value(doc.setup.suspension).front_left)
    /\ ~has_value(doc.setup.aero)

(* C9: get_value returns "no value" when a traversed container is absent,  *)
(* the leaf is empty or the path does not conform to the path grammar, in  *)
(* every other case the leaf's value; it never modifies the document.      *)
C9_GetValueByGrammar ==
    call.op = "get_value"
        => /\ doc = pre
           /\ ret = IF call.path \in CanonicalPaths
                    THEN leaf_value(pre, call.path)
                    ELSE nullopt

(* C10: with a gear-ratio list of length n, get_value of                   *)
(* setup.gearing.gear_<i> returns ratios[i] for i < n, the value           *)
(* flatten_orsf emits under that key, and no value for i >= n.             *)
C10_GearRatiosAddressable ==
    (/\ call.op = "get_value"
     /\ call.path \in GearPaths
     /\ has_value(pre.setup.gearing)
     /\ has_value(value(pre.setup.gearing).gear_ratios))
        => LET ratios == value(value(pre.setup.gearing).gear_ratios)
               i == gear_index(call.path)
           IN IF i < Len(ratios)
              THEN /\ ret = Some(ratios[i + 1])
                   /\ ret = Some(flatten_orsf(pre)[call.path])
              ELSE ret = nullopt

----------------------------------------------------------------------------
(* Properties of the mapping engine (under SpecMap)                        *)

ApplyOpt(t, x) == IF has_value(t) THEN Apply(value(t), x) ELSE x

(* The integers on which a mapping's transforms are compared *)
TransformArgs == -12..12

MutuallyInverse(m) ==
    \A x \in TransformArgs : ApplyOpt(m.to_orsf, ApplyOpt(m.to_native, x)) = x

AllMutuallyInverse(mappings) ==
    \A i \in DOMAIN mappings : MutuallyInverse(mappings[i])

(* Mappings that share a native key also share the canonical path *)
NoKeySharedByPaths(mappings) ==
    \A i, j \in DOMAIN mappings :
        mappings[i].native_key = mappings[j].native_key
            => mappings[i].orsf_path = mappings[j].orsf_path

SameOnPaths(result, mappings) ==
    \A i \in DOMAIN mappings :
        /\ get_value(result, mappings[i].orsf_path)
              = get_value(pre, mappings[i].orsf_path)
        /\ mappings[i].orsf_path \in CanonicalPaths
              => leaf_value(result, mappings[i].orsf_path)
                    = leaf_value(pre, mappings[i].orsf_path)

(* C3 as claimed: for every mapping list with mutually inverse transforms, *)
(* map_to_orsf(map_to_native(doc, m), m, doc) has on every path named in m *)
(* the value doc has (a populated leaf keeps its value, an absent leaf     *)
(* stays absent).                                                          *)
C3_RoundTripAnyList ==
    (call.op = "round_trip" /\ AllMutuallyInverse(call.mappings) /\ ret.ok)
        => SameOnPaths(ret.val, call.mappings)

(* C3 amended: the same, for the lists in which mappings that share a      *)
(* native key also share the canonical path.                               *)
C3_RoundTrip ==
    (/\ call.op = "round_trip"
     /\ AllMutuallyInverse(call.mappings)
     /\ NoKeySharedByPaths(call.mappings)
     /\ ret.ok)
        => SameOnPaths(ret.val, call.mappings)

(* C3 witness: a round trip through a non-identity transform of a          *)
(* populated leaf, in a list that also names an absent leaf.               *)
C3_Witness ==
    /\ call.op = "round_trip"
    /\ AllMutuallyInverse(call.mappings)
    /\ NoKeySharedByPaths(call.mappings)
    /\ ret.ok
    /\ \E i, j \in DOMAIN call.mappings :
          /\ has_value(call.mappings[i].to_native)
          /\ has_value(get_value(pre, call.mappings[i].orsf_path))
          /\ call.native[call.mappings[i].native_key]
                # value(get_value(pre, call.mappings[i].orsf_path))
          /\ ~has_value(get_value(pre, call.mappings[j].orsf_path))

(* The permutations of a mapping list *)
ListPermutations(n) == {f \in [1..n -> 1..n] : \A i, j \in 1..n : f[i] = f[j] => i = j}

Permuted(mappings, f) == [i \in DOMAIN mappings |-> mappings[f[i]]]

(* A call agrees with another when both throw or both return the same *)
SameOutcome(r1, r2) == r1.ok = r2.ok /\ (r1.ok => r1.val = r2.val)

OrderIrrelevant ==
    /\ call.op = "map_to_native"
          => \A f \in ListPermutations(Len(call.mappings)) :
                SameOutcome(map_to_native(pre, Permuted(call.mappings, f)), ret)
    /\ call.op = "map_to_orsf"
          => \A f \in ListPermutations(Len(call.mappings)) :
                SameOutcome(map_to_orsf(call.native, Permuted(call.mappings, f), pre), ret)

DistinctNativeKeys(mappings) ==
    \A i, j \in DOMAIN mappings :
        mappings[i].native_key = mappings[j].native_key => i = j

(* The leaf set_value writes for a path: it reads the first three parts *)
WrittenLeaf(path) ==
    IF Len(split_path(path)) >= 3 THEN SubSeq(split_path(path), 1, 3) ELSE <<>>

DistinctWrittenLeaves(mappings) ==
    \A i, j \in DOMAIN mappings :
        WrittenLeaf(mappings[i].orsf_path) = WrittenLeaf(mappings[j].orsf_path)
            => i = j

ValueAt(orsf, path) ==
    IF path \in CanonicalPaths THEN leaf_value(orsf, path) ELSE get_value(orsf, path)

(* The mappings of the list whose path has a value in the document *)
Valued(mappings) ==
    {i \in DOMAIN mappings : has_value(ValueAt(pre, mappings[i].orsf_path))}

Emitted(mapping) ==
    ApplyOpt(mapping.to_native, value(ValueAt(pre, mapping.orsf_path)))

(* The mappings of the list whose path get_value reads a value at *)
Read(mappings) ==
    {i \in DOMAIN mappings : has_value(get_value(pre, mappings[i].orsf_path))}

(* C5: the result of map_to_native holds, for each mapping whose canonical *)
(* path has a value v in doc, native_key -> to_native(v), and no key other *)
(* than the native keys of such mappings; a mapping whose path has no      *)
(* value and is not required emits no entry.                               *)
C5_NativeEntries ==
    (call.op = "map_to_native" /\ ret.ok)
        => /\ \A i \in Valued(call.mappings) :
                 /\ call.mappings[i].native_key \in DOMAIN ret.val
                 /\ ret.val[call.mappings[i].native_key] = Emitted(call.mappings[i])
           /\ DOMAIN ret.val = {call.mappings[i].native_key : i \in Valued(call.mappings)}

(* What map_to_native does return: native_key -> to_native(v) for each    *)
(* mapping get_value reads a value v for and that no later such mapping    *)
(* shares its native key with (the last one wins), and no other key.       *)
MapToNativeLastWins ==
    (call.op = "map_to_native" /\ ret.ok)
        => /\ \A i \in Read(call.mappings) :
                 (\A j \in Read(call.mappings) :
                     j > i => call.mappings[j].native_key # call.mappings[i].native_key)
                 => /\ call.mappings[i].native_key \in DOMAIN ret.val
                    /\ ret.val[call.mappings[i].native_key]
                          = ApplyOpt(call.mappings[i].to_native,
                                     value(get_value(pre, call.mappings[i].orsf_path)))
           /\ DOMAIN ret.val = {call.mappings[i].native_key : i \in Read(call.mappings)}

(* The required mappings whose source is absent, per direction: the path  *)
(* has no value in the document, or get_value reads none at it.            *)
MissingCanonical(mappings) ==
    {i \in DOMAIN mappings :
        /\ mappings[i].required
        /\ \/ ~has_value(ValueAt(pre, mappings[i].orsf_path))
           \/ ~has_value(get_value(pre, mappings[i].orsf_path))}

MissingNative(mappings, native) ==
    {i \in DOMAIN mappings :
        mappings[i].required /\ mappings[i].native_key \notin DOMAIN native}

First(S) == CHOOSE i \in S : \A j \in S : i <= j

C6_WitnessNative ==
    /\ call.op = "map_to_native"
    /\ MissingCanonical(call.mappings) # {}
    /\ First(MissingCanonical(call.mappings)) = 2
    /\ 1 \in Valued(call.mappings)

MappedPaths(mappings, native) ==
    {mappings[i].orsf_path :
        i \in {j \in DOMAIN mappings : mappings[j].native_key \in DOMAIN native}}

MappedLeaves(mappings, native) ==
    {WrittenLeaf(mappings[i].orsf_path) :
        i \in {j \in DOMAIN mappings : mappings[j].native_key \in DOMAIN native}}

RestIsTemplate(result) ==
    /\ result.schema = pre.schema
    /\ result.metadata = pre.metadata
    /\ result.car = pre.car
    /\ result.context = pre.context
    /\ result.compat = pre.compat

(* C7: map_to_orsf never modifies the caller's template, and in the        *)
(* returned document every field that is not the canonical path of a       *)
(* mapping whose native key is present has exactly the template's value.   *)
C7_TemplatePreserved ==
    call.op = "map_to_orsf"
        => /\ doc = pre
           /\ ret.ok =>
                /\ RestIsTemplate(ret.val)
                /\ \A p \in CanonicalPaths \ MappedPaths(call.mappings, call.native) :
                      leaf_value(ret.val, p) = leaf_value(pre, p)

(* What map_to_orsf does keep: every field that is not the leaf set_value  *)
(* resolves such a mapping's path to (it ignores what follows the leaf     *)
(* name).                                                                  *)
MapToOrsfKeepsUnaddressed ==
    call.op = "map_to_orsf"
        => /\ doc = pre
           /\ ret.ok =>
                /\ RestIsTemplate(ret.val)
                /\ \A p \in CanonicalPaths \ MappedLeaves(call.mappings, call.native) :
                      leaf_value(ret.val, p) = leaf_value(pre, p)

----------------------------------------------------------------------------
(* The caller of the validator: it builds a document as the sections of    *)
(* test_validator.cpp do, or parses one, and validates it.                 *)

(* setup.schema = "orsf://v99"; *)
AssignSchema(schema) ==
    /\ Building
    /\ doc.schema = "orsf://v1"
    /\ doc' = [doc EXCEPT !.schema = schema]
    /\ mutations' = mutations + 1
    /\ NoCall

(* setup.metadata.<f> = v; or setup.car.<f> = v; where updated_at and     *)
(* car_class are optionals                                                 *)
AssignIdentityField(section, f, v) ==
    LET optional == f \in {"updated_at", "car_class"} IN
    /\ Building
    /\ IF optional THEN ~has_value(doc[section][f]) ELSE doc[section][f] = ""
    /\ doc' = [doc EXCEPT ![section][f] = IF optional THEN Some(v) ELSE v]
    /\ mutations' = mutations + 1
    /\ NoCall

(* setup.context = Context{}; or a Context with members already set *)
EmplaceContext(context) ==
    /\ Building
    /\ ~has_value(doc.context)
    /\ doc' = [doc EXCEPT !.context = Some(context)]
    /\ mutations' = mutations + 1
    /\ NoCall

(* setup.context-><f> = v; *)
AssignContextLeaf(f, v) ==
    /\ Building
    /\ has_value(doc.context)
    /\ ~has_value(value(doc.context)[f])
    /\ doc' = [doc EXCEPT !.context[1][f] = Some(v)]
    /\ mutations' = mutations + 1
    /\ NoCall

(* auto errors = Validator::validate(setup); *)
Validate ==
    /\ Idle
    /\ call' = [op |-> "validate"]
    /\ pre' = doc
    /\ ret' = validate(doc)
    /\ UNCHANGED <<doc, mutations, table_, registry>>

(* ORSF::from_json(json_str), a static function, called before the caller  *)
(* has a document of its own                                               *)
FromJson(json_str) ==
    /\ Idle
    /\ mutations = 0
    /\ call' = [op |-> "from_json", json_str |-> json_str]
    /\ pre' = doc
    /\ ret' = from_json_string(json_str)
    /\ UNCHANGED <<doc, mutations, table_, registry>>

(* ORSF::from_json(setup.to_json_string()): the document written and read *)
(* back (dump and parse are taken to be inverse)                           *)
ToJsonFromJson ==
    /\ Idle
    /\ call' = [op |-> "to_json", json_str |-> [parsed |-> Returns(to_json(doc))]]
    /\ pre' = doc
    /\ ret' = from_json_string([parsed |-> Returns(to_json(doc))])
    /\ UNCHANGED <<doc, mutations, table_, registry>>

(* Inputs of the validation specification, around the values the checks   *)
(* of validator.cpp compare with. Numbers are in tenths where the tests    *)
(* use fractions (gear ratios), whole units elsewhere. A leaf comes with   *)
(* the set of values it is assigned; gear_ratios are up to MaxGears ratios *)
(* of {0, 3.5}, [-2.8] and the list [3.5, -2.8, 2.3, 0.0, 1.6].            *)
ValidateInputs ==
    [ schemas |-> {"orsf://v99"},
      identity |->
        ({<<"metadata", "id">>, <<"metadata", "name">>} \X {{"x"}})
        \cup ({<<"metadata", "created_at">>} \X {{"2024-01-01T00:00:00Z", "yesterday"}})
        \cup ({<<"metadata", "updated_at">>} \X {{"2023-01-01T00:00:00Z", "yesterday"}})
        \cup ({<<"car", "make">>} \X {{"Porsche"}})
        \cup ({<<"car", "model">>} \X {{"911 GT3 R"}})
        \cup ({<<"car", "car_class">>} \X {{"GT3", "Rally"}}),
      contexts |->
        {Context,
         [Context EXCEPT !.ambient_temp_c = Some(25), !.track_temp_c = Some(10)],
         [Context EXCEPT !.ambient_temp_c = Some(20), !.track_temp_c = Some(66)]},
      context |->
        ({"ambient_temp_c"} \X {{20, 25, 71}})
        \cup ({"track_temp_c"} \X {{10, 15, 20, 30, 65, 66, 81}})
        \cup ({"wetness"} \X {{-1, 0, 1, 2}})
        \cup ({"rubber"} \X {{"green", "sticky"}}),
      leaves |->
        ({<<"aero", "front_ride_height_mm">>, <<"drivetrain", "final_drive_ratio">>,
          <<"brakes", "max_force_n">>, <<"fuel", "per_lap_consumption_l">>} \X {{0, 1}})
        \cup ({<<"aero", "rear_ride_height_mm">>, <<"gearing", "reverse_ratio">>,
               <<"electronics", "pit_limiter_kph">>,
               <<"suspension", "heave_spring_n_mm">>,
               <<"drivetrain", "lsd_clutch_plates">>,
               <<"fuel", "stint_target_laps">>} \X {{0}})
        \cup ({<<"aero", "front_downforce_n">>, <<"drivetrain", "diff_preload_nm">>,
               <<"fuel", "start_fuel_l">>} \X {{-1, 0}})
        \cup ({<<"aero", "rear_downforce_n">>} \X {{-1}})
        \cup ({<<"aero", "brake_duct_front_pct">>} \X {{-1, 0, 100, 101}})
        \cup ({<<"aero", "radiator_opening_pct">>,
               <<"drivetrain", "diff_power_ramp_pct">>} \X {{0, 101}})
        \cup ({<<"aero", "brake_duct_rear_pct">>, <<"brakes", "brake_bias_pct">>,
               <<"drivetrain", "diff_coast_ramp_pct">>} \X {{-1, 100}})
        \cup ({<<"tires", "pressure_fl_kpa">>} \X {{49, 50, 400, 401}})
        \cup ({<<"tires", "pressure_fr_kpa">>, <<"tires", "pressure_rl_kpa">>,
               <<"tires", "pressure_rr_kpa">>} \X {{49, 400}}),
      corners |-> {"front_left", "rear_right"},
      corner_leaves |->
        ({"spring_rate_n_mm"} \X {{0, 1}})
        \cup ({"ride_height_mm", "bumpstop_rate_n_mm"} \X {{0}})
        \cup ({"bumpstop_gap_mm"} \X {{-1, 0}})
        \cup ({"damper_bump_slow_n_s_m", "damper_rebound_fast_n_s_m"} \X {{0}})
        \cup ({"damper_bump_fast_n_s_m", "damper_rebound_slow_n_s_m"} \X {{-1}})
        \cup ({"camber_deg"} \X {{-11, -10, 5, 6}}),
      gear_ratios |->
        UNION {[1..n -> {0, 35}] : n \in 0..MaxGears}
        \cup {<<-28>>, <<35, -28, 23, 0, 16>>} ]

(* The texts given to from_json, each with what json::parse makes of it *)
JsonTexts ==
    LET schemas ==
          {nullopt, Some(Json("string", "orsf://v1")), Some(Json("string", "orsf://v99")),
           Some(Json("string", "")), Some(Json("string", "ORSF://V1")),
           Some(Json("number", "1")), Some(Json("null", ""))}
        metadatas ==
          {nullopt, Some(Json("array", "")), Some(JsonObject([id |-> nullopt])),
           Some(JsonObject([id |-> Some(Json("string", "test"))])),
           Some(JsonObject([id |-> Some(Json("number", "1"))]))}
        car(class, car_class) ==
          Some(JsonObject([make |-> Some(Json("string", "Porsche")),
                           class |-> class, car_class |-> car_class]))
        cars ==
          {nullopt, Some(Json("array", "")),
           car(nullopt, nullopt),
           car(Some(Json("string", "GT3")), nullopt),
           car(nullopt, Some(Json("string", "GT3"))),
           car(Some(Json("string", "GT3")), Some(Json("string", "GTE"))),
           car(Some(Json("string", "GT3")), Some(Json("null", ""))),
           car(nullopt, Some(Json("number", "3")))}
    IN  {[parsed |-> Throws(<<"json::parse_error">>)], [parsed |-> Returns(Json("array", ""))]}
        \cup {[parsed |-> Returns(JsonObject([schema |-> sch, metadata |-> md,
                                              car |-> c]))] :
                 sch \in schemas, md \in metadatas, c \in cars}

NextValidate ==
    \/ \E schema \in ValidateInputs.schemas : AssignSchema(schema)
    \/ \E l \in ValidateInputs.identity : \E v \in l[2] :
          AssignIdentityField(l[1][1], l[1][2], v)
    \/ \E context \in ValidateInputs.contexts : EmplaceContext(context)
    \/ \E l \in ValidateInputs.context : \E v \in l[2] : AssignContextLeaf(l[1], v)
    \/ \E s \in Subsystems : Emplace(s)
    \/ \E c \in ValidateInputs.corners : EmplaceCorner(c)
    \/ \E l \in ValidateInputs.leaves : \E v \in l[2] : AssignLeaf(l[1][1], l[1][2], v)
    \/ \E c \in ValidateInputs.corners, l \in ValidateInputs.corner_leaves :
          \E v \in l[2] : AssignCornerLeaf(c, l[1], v)
    \/ \E ratios \in ValidateInputs.gear_ratios : AssignGearRatioList(ratios)
    \/ Validate
    \/ \E json_str \in JsonTexts : FromJson(json_str)
    \/ ToJsonFromJson

SpecValidate == Init /\ [][NextValidate]_vars

----------------------------------------------------------------------------
(* Properties of the validator and of from_json (under SpecValidate)       *)

(* The positions of the findings on a field *)
FindingsOn(errors, field) == {i \in DOMAIN errors : errors[i].field = field}

(* The input text holds a JSON object whose schema member is not the       *)
(* string "orsf://v1"                                                      *)
SchemaDiffers(json_str) ==
    /\ json_str.parsed.ok
    /\ json_str.parsed.val.type = "object"
    /\ has_value(json_str.parsed.val.members.schema)
    /\ value(json_str.parsed.val.members.schema) # Json("string", "orsf://v1")

(* C11: from_json fails for every input whose schema differs from          *)
(* "orsf://v1", so every document it returns has that schema; validate     *)
(* reports exactly one Error/SchemaInvalid finding on `schema` for a       *)
(* document with another schema, and none when the schema matches.         *)
C11_SchemaRejected ==
    /\ call.op = "from_json"
          => /\ SchemaDiffers(call.json_str) => ~ret.ok
             /\ ret.ok => ret.val.schema = "orsf://v1"
             /\ doc = pre
    /\ call.op = "validate"
          => /\ \A i \in DOMAIN ret :
                   (ret[i].code = "SchemaInvalid" \/ ret[i].field = <<"schema">>)
                      => /\ ret[i].severity = "Error"
                         /\ ret[i].code = "SchemaInvalid"
                         /\ ret[i].field = <<"schema">>
             /\ Cardinality(FindingsOn(ret, <<"schema">>))
                   = IF pre.schema # "orsf://v1" THEN 1 ELSE 0

(* C11 witness: from_json deserialized an object with schema "orsf://v99"  *)
(* and threw on the schema check.                                          *)
C11_Witness ==
    /\ call.op = "from_json"
    /\ SchemaDiffers(call.json_str)
    /\ get_to(call.json_str.parsed.val, ORSF).ok
    /\ ~ret.ok
    /\ ret.what[1] = "Invalid schema version: "

(* validate reported the schema of an in-memory document *)
C11_WitnessValidate ==
    /\ call.op = "validate"
    /\ pre.schema = "orsf://v99"
    /\ FindingsOn(ret, <<"schema">>) = {1}

(* What each section reports when it is run on its own, in the order      *)
(* validate runs the sections                                              *)
SectionFindings(orsf) ==
    << validate_schema(orsf, <<>>),
       validate_metadata(orsf.metadata, <<>>),
       validate_car(orsf.car, <<>>),
       validate_context(orsf.context, <<>>),
       validate_aero(orsf.setup.aero, <<>>),
       validate_suspension(orsf.setup.suspension, <<>>),
       validate_tires(orsf.setup.tires, <<>>),
       validate_drivetrain(orsf.setup.drivetrain, <<>>),
       validate_gearing(orsf.setup.gearing, <<>>),
       validate_brakes(orsf.setup.brakes, <<>>),
       validate_electronics(orsf.setup.electronics, <<>>),
       validate_fuel(orsf.setup.fuel, <<>>),
       validate_cross_field(orsf, <<>>) >>

RECURSIVE Concatenation(_)
Concatenation(seqs) ==
    IF seqs = <<>> THEN <<>> ELSE Head(seqs) \o Concatenation(Tail(seqs))

(* The required string fields of a document, by section *)
RequiredFields ==
    {<<"metadata", "id">>, <<"metadata", "name">>, <<"metadata", "created_at">>,
     <<"car", "make">>, <<"car", "model">>}

(* C12: validate never stops at a finding: its result is the concatenation *)
(* of what every section reports on its own, so a document with a wrong    *)
(* schema and empty id, name, created_at, make and model yields the        *)
(* SchemaInvalid finding and one Error/Required finding for each of those  *)
(* five fields, each exactly once.                                         *)
C12_AllSectionsReported ==
    call.op = "validate"
       => /\ ret = Concatenation(SectionFindings(pre))
          /\ pre.schema # "orsf://v1"
                => Cardinality({i \in DOMAIN ret : ret[i].code = "SchemaInvalid"}) = 1
          /\ \A r \in RequiredFields :
                Cardinality({i \in DOMAIN ret :
                               /\ ret[i].field = r
                               /\ ret[i].code = "Required"
                               /\ ret[i].severity = "Error"})
                   = IF pre[r[1]][r[2]] = "" THEN 1 ELSE 0

(* C12 witness: a document with a wrong schema and the five required       *)
(* fields empty got the six Error findings, and a Warning of a later       *)
(* section next to them.                                                   *)
C12_Witness ==
    /\ call.op = "validate"
    /\ pre.schema # "orsf://v1"
    /\ \A r \in RequiredFields : pre[r[1]][r[2]] = ""
    /\ Cardinality({i \in DOMAIN ret : ret[i].severity = "Error"}) = 6
    /\ \E i \in DOMAIN ret : ret[i].severity = "Warning" /\ ret[i].code = "Incompatible"

(* The findings about the gear-ratio list or one of its entries, in the    *)
(* order validate reports them                                             *)
GearRatioFindings(errors) ==
    SelectSeq(errors, LAMBDA e : /\ Len(e.field) = 3
                                 /\ e.field[1] = "setup"
                                 /\ e.field[2] = "gearing"
                                 /\ e.field[3] # "reverse_ratio")

(* The zero-based indices of the entries that are <= 0, in increasing order *)
NonPositiveIndices(ratios) ==
    SelectSeq([k \in 1..Len(ratios) |-> k - 1], LAMBDA i : ratios[i + 1] <= 0)

(* C13: for a present gear-ratio list validate reports one Error/OutOfRange *)
(* finding per entry <= 0, on the field gear_ratios[i] of the entry's      *)
(* zero-based index i, in increasing index order, and nothing for positive *)
(* entries; a present but empty list gets one Warning and no Error; an     *)
(* absent list or gearing gets nothing.                                    *)
C13_GearRatioFindings ==
    call.op = "validate"
       => LET found == GearRatioFindings(ret)
              present == /\ has_value(pre.setup.gearing)
                         /\ has_value(value(pre.setup.gearing).gear_ratios)
              ratios == value(value(pre.setup.gearing).gear_ratios)
              bad == NonPositiveIndices(ratios)
          IN IF ~present THEN found = <<>>
             ELSE IF ratios = <<>>
             THEN /\ Len(found) = 1
                  /\ found[1].severity = "Warning"
                  /\ found[1].field = <<"setup", "gearing", "gear_ratios">>
             ELSE /\ Len(found) = Len(bad)
                  /\ \A k \in DOMAIN found :
                        /\ found[k].severity = "Error"
                        /\ found[k].code = "OutOfRange"
                        /\ found[k].field = <<"setup", "gearing", GearRatioNames[bad[k] + 1]>>

(* C13 witness: the list [3.5, -2.8, 2.3, 0.0, 1.6] got exactly two        *)
(* findings, on gear_ratios[1] and gear_ratios[3], in that order.          *)
C13_Witness ==
    /\ call.op = "validate"
    /\ has_value(pre.setup.gearing)
    /\ value(pre.setup.gearing).gear_ratios = Some(<<35, -28, 23, 0, 16>>)
    /\ Len(GearRatioFindings(ret)) = 2
    /\ GearRatioFindings(ret)[1].field = <<"setup", "gearing", "gear_ratios[1]">>
    /\ GearRatioFindings(ret)[2].field = <<"setup", "gearing", "gear_ratios[3]">>
    /\ \A i \in DOMAIN ret :
          ret[i].code = "OutOfRange"
             => ret[i] = GearRatioFindings(ret)[1] \/ ret[i] = GearRatioFindings(ret)[2]

(* A present but empty list got its single Warning *)
C13_WitnessEmpty ==
    /\ call.op = "validate"
    /\ has_value(pre.setup.gearing)
    /\ value(pre.setup.gearing).gear_ratios = Some(<<>>)
    /\ Len(GearRatioFindings(ret)) = 1
    /\ \A i \in DOMAIN ret : ret[i].severity = "Error" => ret[i].code = "Required"

(* The positions of the Incompatible findings on context.track_temp_c *)
TrackTempIncompatible(errors) ==
    {i \in FindingsOn(errors, <<"context", "track_temp_c">>) :
        errors[i].code = "Incompatible"}

(* The context holds both temperatures *)
BothTemperatures(orsf) ==
    /\ has_value(orsf.context)
    /\ has_value(value(orsf.context).ambient_temp_c)
    /\ has_value(value(orsf.context).track_temp_c)

(* C14: validate reports a Warning/Incompatible finding on                 *)
(* context.track_temp_c exactly when the context holds both temperatures   *)
(* and track < ambient - 5 or track > ambient + 40, and then exactly one;  *)
(* none when a temperature or the context is absent or the difference is   *)
(* within those limits.                                                    *)
C14_TrackTempIncompatible ==
    call.op = "validate"
       => /\ \A i \in TrackTempIncompatible(ret) : ret[i].severity = "Warning"
          /\ Cardinality(TrackTempIncompatible(ret))
                = IF /\ BothTemperatures(pre)
                     /\ LET ambient == value(value(pre.context).ambient_temp_c)
                            track == value(value(pre.context).track_temp_c)
                        IN track < ambient - 5 \/ track > ambient + 40
                  THEN 1 ELSE 0

(* C14 witness: ambient 25 and track 10 got exactly one such finding *)
C14_Witness ==
    /\ call.op = "validate"
    /\ BothTemperatures(pre)
    /\ value(value(pre.context).ambient_temp_c) = 25
    /\ value(value(pre.context).track_temp_c) = 10
    /\ Cardinality(TrackTempIncompatible(ret)) = 1

(* Ambient 20 and track 30 got none; ambient 20 and track 15, at the limit, *)
(* got none either                                                         *)
C14_WitnessWithin ==
    /\ call.op = "validate"
    /\ BothTemperatures(pre)
    /\ value(value(pre.context).ambient_temp_c) = 20
    /\ value(value(pre.context).track_temp_c) \in {15, 30}
    /\ TrackTempIncompatible(ret) = {}

(* The fields by the check the validator is said to run on them *)
CornerPaths(fields) ==
    {<<"setup", "suspension", c, f>> : c \in CornerNames, f \in fields}

PositivityChecked ==
    CornerPaths({"spring_rate_n_mm", "ride_height_mm", "bumpstop_rate_n_mm"})
    \cup {<<"setup", "aero", "front_ride_height_mm">>,
          <<"setup", "aero", "rear_ride_height_mm">>,
          <<"setup", "drivetrain", "final_drive_ratio">>,
          <<"setup", "brakes", "max_force_n">>,
          <<"setup", "fuel", "per_lap_consumption_l">>,
          <<"setup", "electronics", "pit_limiter_kph">>}

NonNegativityChecked ==
    CornerPaths({"bumpstop_gap_mm", "damper_bump_slow_n_s_m", "damper_bump_fast_n_s_m",
                 "damper_rebound_slow_n_s_m", "damper_rebound_fast_n_s_m"})
    \cup {<<"setup", "aero", "front_downforce_n">>,
          <<"setup", "aero", "rear_downforce_n">>,
          <<"setup", "drivetrain", "diff_preload_nm">>,
          <<"setup", "fuel", "start_fuel_l">>}

PercentageChecked ==
    {<<"setup", "aero", "brake_duct_front_pct">>,
     <<"setup", "aero", "brake_duct_rear_pct">>,
     <<"setup", "aero", "radiator_opening_pct">>,
     <<"setup", "drivetrain", "diff_power_ramp_pct">>,
     <<"setup", "drivetrain", "diff_coast_ramp_pct">>,
     <<"setup", "brakes", "brake_bias_pct">>}

(* The fields with a plausibility range, each with its limits *)
PlausibilityChecked ==
    {<<p, -10, 5>> : p \in CornerPaths({"camber_deg"})}
    \cup {<<<<"setup", "tires", f>>, 50, 400>> :
             f \in {"pressure_fl_kpa", "pressure_fr_kpa", "pressure_rl_kpa",
                    "pressure_rr_kpa"}}
    \cup {<<<<"context", "ambient_temp_c">>, -50, 70>>,
          <<<<"context", "track_temp_c">>, -20, 80>>}

(* The value a document holds at a checked field, nullopt when the field   *)
(* or a struct above it is absent                                          *)
CheckedValue(orsf, p) ==
    IF p[1] = "context"
    THEN IF has_value(orsf.context) THEN value(orsf.context)[p[2]] ELSE nullopt
    ELSE leaf_value(orsf, p)

(* The number of findings of a severity and code OutOfRange on a field *)
OutOfRangeOn(errors, field, severity) ==
    Cardinality({i \in FindingsOn(errors, field) :
                   errors[i].code = "OutOfRange" /\ errors[i].severity = severity})

(* One finding when the field is present and its value is rejected, else none *)
OneIff(n, orsf, p, rejected(_)) ==
    n = IF has_value(CheckedValue(orsf, p)) /\ rejected(value(CheckedValue(orsf, p)))
        THEN 1 ELSE 0

(* field is `prefix` or a field below it *)
Below(prefix, field) ==
    Len(field) >= Len(prefix) /\ SubSeq(field, 1, Len(prefix)) = prefix

C15_WitnessWarning ==
    /\ call.op = "validate"
    /\ CheckedValue(pre, <<"setup", "tires", "pressure_fl_kpa">>) = Some(401)
    /\ CheckedValue(pre, <<"context", "wetness">>) = Some(2)
    /\ OutOfRangeOn(ret, <<"setup", "tires", "pressure_fl_kpa">>, "Warning") = 1
    /\ OutOfRangeOn(ret, <<"context", "wetness">>, "Error") = 1

(* The phases of a validation run, in the order they are said to report,  *)
(* each as the prefix of the fields it reports on; the cross-field phase   *)
(* reports Incompatible findings on context.track_temp_c.                  *)
Phases ==
    << <<"schema">>, <<"metadata">>, <<"car">>, <<"context">>,
       <<"setup", "aero">>,
       <<"setup", "suspension", "front_left">>, <<"setup", "suspension", "front_right">>,
       <<"setup", "suspension", "rear_left">>, <<"setup", "suspension", "rear_right">>,
       <<"setup", "suspension">>,
       <<"setup", "tires">>, <<"setup", "drivetrain">>, <<"setup", "gearing">>,
       <<"setup", "brakes">>, <<"setup", "electronics">>, <<"setup", "fuel">> >>

(* The phase a finding belongs to: the first whose prefix its field has,   *)
(* the one after all of them for a cross-field finding                     *)
Phase(e) ==
    IF e.field = <<"context", "track_temp_c">> /\ e.code = "Incompatible"
    THEN Len(Phases) + 1
    ELSE CHOOSE k \in DOMAIN Phases :
            /\ Below(Phases[k], e.field)
            /\ \A j \in 1..(k - 1) : ~Below(Phases[j], e.field)

(* C16: the findings of validate are ordered by phase: schema, metadata,   *)
(* car, context, then setup in the order aero, suspension (front_left,     *)
(* front_right, rear_left, rear_right, shared fields), tires, drivetrain,  *)
(* gearing, brakes, electronics, fuel, and the cross-field findings last;  *)
(* the document is the same after the call, and validating it again gives  *)
(* the same sequence.                                                      *)
C16_OrderedByPhase ==
    call.op = "validate"
       => /\ \A i \in DOMAIN ret : \E k \in DOMAIN Phases : Below(Phases[k], ret[i].field)
          /\ \A i, j \in DOMAIN ret : i < j => Phase(ret[i]) <= Phase(ret[j])
          /\ doc = pre
          /\ validate(doc) = ret

(* C16 witness: a run reported on metadata, car, a suspension corner and   *)
(* the shared suspension fields, in that order.                            *)
C16_Witness ==
    /\ call.op = "validate"
    /\ \E i, j \in DOMAIN ret :
          /\ i < j
          /\ Phase(ret[1]) = 2
          /\ Phase(ret[i]) \in 6..9
          /\ Phase(ret[j]) = 10

(* A run reported a setup finding and a cross-field finding after it *)
C16_WitnessCrossFieldLast ==
    /\ call.op = "validate"
    /\ \E i, j \in DOMAIN ret :
          /\ i < j
          /\ Phase(ret[i]) \in 5..16
          /\ Phase(ret[j]) = Len(Phases) + 1

----------------------------------------------------------------------------
(* utils.hpp / utils.cpp: LookupTableConverter.  A double is the rational  *)
(* <<n, d>> = n/d in lowest terms with d > 0, so that equal numbers are    *)
(* equal tuples; the arithmetic is exact (the rounding of double           *)
(* arithmetic is not modelled).                                            *)

MaxEntries == 3

RECURSIVE gcd(_, _)
gcd(a, b) == IF b = 0 THEN a ELSE gcd(b, a % b)

Rational(n, d) ==
    LET sn == IF d < 0 THEN -n ELSE n
        sd == IF d < 0 THEN -d ELSE d
        g == gcd(IF sn < 0 THEN -sn ELSE sn, sd)
    IN <<sn \div g, sd \div g>>

(* a <= b on doubles *)
less_equal(a, b) == a[1] * b[2] <= b[1] * a[2]

LUTEntry(in, out) == [input |-> in, output |-> out]

(* The constructor's sort, were it to leave the table as it was given *)
std_sort_as_given(table) == {table}

(* std::sort with the comparator a.input < b.input: the arrangements it    *)
(* may leave, the order of entries with equal inputs being unspecified     *)
std_sort(table) ==
    LET n == Len(table)
        orders == {f \in [1..n -> 1..n] : \A i, j \in 1..n : f[i] = f[j] => i = j}
    IN {sorted \in {[i \in 1..n |-> table[f[i]]] : f \in orders} :
          \A i, j \in 1..n : i < j => less_equal(sorted[i].input, sorted[j].input)}

(* lerp, were it to run from y1 at x0 to y0 at x1 *)
lerp_reflected(x, x0, x1, y0, y1) ==
    IF x1 = x0 THEN y0
    ELSE LET dy == Rational(y0[1] * y1[2] - y1[1] * y0[2], y0[2] * y1[2])
             dx == Rational(x[1] * x0[2] - x0[1] * x[2], x[2] * x0[2])
             d == Rational(x1[1] * x0[2] - x0[1] * x1[2], x1[2] * x0[2])
             t == Rational(dy[1] * dx[1] * d[2], dy[2] * dx[2] * d[1])
         IN Rational(y1[1] * t[2] + t[1] * y1[2], y1[2] * t[2])

(* LookupTableConverter::lerp.  Two inputs of the model are equal or differ *)
(* by far more than the 1e-10 of the source.                               *)
lerp(x, x0, x1, y0, y1) ==
    IF x1 = x0 THEN y0
    ELSE LET dy == Rational(y1[1] * y0[2] - y0[1] * y1[2], y1[2] * y0[2])
             dx == Rational(x[1] * x0[2] - x0[1] * x[2], x[2] * x0[2])
             d == Rational(x1[1] * x0[2] - x0[1] * x1[2], x1[2] * x0[2])
             t == Rational(dy[1] * dx[1] * d[2], dy[2] * dx[2] * d[1])
         IN Rational(y0[1] * t[2] + t[1] * y0[2], y0[2] * t[2])

(* LookupTableConverter::interpolate on table_ *)
interpolate(table, v) ==
    IF table = <<>> THEN Throws(<<"Empty lookup table">>)
    ELSE IF less_equal(v, table[1].input) THEN Returns(table[1].output)
    ELSE IF less_equal(table[Len(table)].input, v) THEN Returns(table[Len(table)].output)
    ELSE LET found == {i \in 1..(Len(table) - 1) :
                          /\ less_equal(table[i].input, v)
                          /\ less_equal(v, table[i + 1].input)}
         IN IF found = {} THEN Returns(table[Len(table)].output)
            ELSE LET i == CHOOSE k \in found : \A m \in found : k <= m
                 IN Returns(lerp(v, table[i].input, table[i + 1].input,
                                 table[i].output, table[i + 1].output))

(* reverse_lookup, were reverse_table left in the order of table_ *)
reverse_lookup_unsorted(table, v) ==
    IF table = <<>> THEN {Throws(<<"Empty lookup table">>)}
    ELSE {interpolate([i \in DOMAIN table |-> LUTEntry(table[i].output, table[i].input)], v)}

(* LookupTableConverter::reverse_lookup on table_: the results it may      *)
(* return, one for each arrangement std::sort may leave reverse_table in   *)
reverse_lookup(table, v) ==
    IF table = <<>> THEN {Throws(<<"Empty lookup table">>)}
    ELSE {interpolate(reverse_table, v) :
             reverse_table \in std_sort([i \in DOMAIN table |->
                                            LUTEntry(table[i].output, table[i].input)])}

(* LookupTableConverter lut(table); *)
Construct(table) ==
    /\ call.op = "none"
    /\ mutations = 0
    /\ table_' \in std_sort(table)
    /\ call' = [op |-> "LookupTableConverter", table |-> table]
    /\ UNCHANGED <<doc, pre, ret, mutations, registry>>

(* lut.interpolate(value) *)
Interpolate(v) ==
    /\ call.op = "LookupTableConverter"
    /\ call' = [op |-> "interpolate", table |-> call.table, value |-> v]
    /\ ret' = interpolate(table_, v)
    /\ UNCHANGED <<doc, pre, mutations, table_, registry>>

(* lut.reverse_lookup(value), or lut.reverse_lookup(lut.interpolate(x)) *)
ReverseLookup(v) ==
    /\ \/ call.op = "LookupTableConverter"
       \/ call.op = "interpolate" /\ ret.ok /\ ret.val = v
    /\ call' = [op |-> "reverse_lookup", table |-> call.table, value |-> v,
                of |-> IF call.op = "interpolate" THEN Some(call.value) ELSE nullopt]
    /\ ret' \in reverse_lookup(table_, v)
    /\ UNCHANGED <<doc, pre, mutations, table_, registry>>

(* The table of test_utils.cpp *)
TestedTable ==
    <<LUTEntry(<<0, 1>>, <<0, 1>>), LUTEntry(<<50, 1>>, <<25, 1>>),
      LUTEntry(<<100, 1>>, <<75, 1>>)>>

(* Inputs of the lookup-table specification: tables of up to MaxEntries    *)
(* entries in any order, duplicates included, the table of test_utils.cpp  *)
(* in two orders, and the values queried.                                  *)
LutInputs ==
    LET entries == {LUTEntry(<<e[1], 1>>, <<e[2], 1>>) :
                       e \in {<<0, 0>>, <<0, 30>>, <<10, 10>>, <<10, 0>>,
                              <<20, 30>>, <<20, 0>>}}
    IN [ tables |-> UNION {[1..n -> entries] : n \in 0..MaxEntries}
                    \cup {TestedTable,
                          <<TestedTable[3], TestedTable[1], TestedTable[2]>>},
         values |-> {<<n, 1>> : n \in {-5, 0, 5, 10, 15, 20, 25, 30}} ]

NextLut ==
    \/ \E table \in LutInputs.tables : Construct(table)
    \/ \E v \in LutInputs.values : Interpolate(v)
    \/ \E v \in LutInputs.values
               \cup (IF call.op = "interpolate" /\ ret.ok THEN {ret.val} ELSE {}) :
          ReverseLookup(v)

SpecLut == Init /\ [][NextLut]_vars

----------------------------------------------------------------------------
(* Properties of the lookup table (under SpecLut) *)

(* The entries of a table with the least and with the greatest input *)
MinInputEntries(table) ==
    {table[i] : i \in {k \in DOMAIN table :
                         \A m \in DOMAIN table : less_equal(table[k].input, table[m].input)}}

MaxInputEntries(table) ==
    {table[i] : i \in {k \in DOMAIN table :
                         \A m \in DOMAIN table : less_equal(table[m].input, table[k].input)}}

(* C17: on a non-empty table, in whatever order its entries were given,    *)
(* interpolate(x) returns the output of an entry with the minimum input    *)
(* for x at or below that input and the output of an entry with the        *)
(* maximum input for x at or above that input; a single-entry table        *)
(* returns its entry's output from interpolate and its entry's input from  *)
(* reverse_lookup for every query.                                         *)
C17_ClampedToBounds ==
    /\ (call.op = "interpolate" /\ call.table # <<>>)
          => /\ ret.ok
             /\ \A e \in MinInputEntries(call.table) :
                   less_equal(call.value, e.input)
                      => ret.val \in {m.output : m \in MinInputEntries(call.table)}
             /\ \A e \in MaxInputEntries(call.table) :
                   less_equal(e.input, call.value)
                      => ret.val \in {m.output : m \in MaxInputEntries(call.table)}
             /\ Len(call.table) = 1 => ret.val = call.table[1].output
    /\ (call.op = "reverse_lookup" /\ Len(call.table) = 1)
          => ret.ok /\ ret.val = call.table[1].input

(* C17 witness: a table given out of order, with one entry at its greatest *)
(* input, returned that entry's output for a value above it.               *)
C17_Witness ==
    /\ call.op = "interpolate"
    /\ Len(call.table) = 3
    /\ call.table # table_
    /\ \E e \in MaxInputEntries(call.table) :
          /\ MaxInputEntries(call.table) = {e}
          /\ e # call.table[3]
          /\ ~less_equal(call.value, e.input)
          /\ ret = Returns(e.output)

(* A single-entry table returned its input from reverse_lookup for a value *)
(* that is not its output                                                  *)
C17_WitnessSingle ==
    /\ call.op = "reverse_lookup"
    /\ Len(call.table) = 1
    /\ call.value # call.table[1].output
    /\ ret = Returns(call.table[1].input)

(* x lies between the inputs of entries i and i + 1 of a sorted table,     *)
(* the two inputs included or excluded                                     *)
Inside(table, i, x) ==
    less_equal(table[i].input, x) /\ less_equal(x, table[i + 1].input)

StrictlyInside(table, i, x) ==
    ~less_equal(x, table[i].input) /\ ~less_equal(table[i + 1].input, x)

DistinctInputs(table) ==
    \A i, j \in DOMAIN table : i # j => table[i].input # table[j].input

(* C18 as stated: between any two consecutive points of any table          *)
(* interpolate is non-decreasing.                                          *)
C18_NonDecreasingAnyTable ==
    (call.op = "interpolate" /\ ret.ok)
       => \A i \in 1..(Len(table_) - 1) : \A x2 \in LutInputs.values :
             (Inside(table_, i, call.value) /\ Inside(table_, i, x2)
                /\ less_equal(call.value, x2))
                => less_equal(ret.val, interpolate(table_, x2).val)

(* C18, amended: between two consecutive points (x0, y0), (x1, y1) of the  *)
(* sorted table interpolate is monotonic in the direction of the segment,  *)
(* non-decreasing when y0 <= y1 and non-increasing when y0 >= y1: on the   *)
(* whole interval [x0, x1] when the inputs of the table are pairwise       *)
(* distinct, and strictly inside it for every table.                       *)
C18_MonotonicAlongSegment ==
    (call.op = "interpolate" /\ ret.ok)
       => \A i \in 1..(Len(table_) - 1) : \A x2 \in LutInputs.values :
             (/\ less_equal(call.value, x2)
              /\ \/ /\ DistinctInputs(table_)
                    /\ Inside(table_, i, call.value)
                    /\ Inside(table_, i, x2)
                 \/ /\ StrictlyInside(table_, i, call.value)
                    /\ StrictlyInside(table_, i, x2))
                => LET y2 == interpolate(table_, x2).val IN
                   /\ less_equal(table_[i].output, table_[i + 1].output)
                         => less_equal(ret.val, y2)
                   /\ less_equal(table_[i + 1].output, table_[i].output)
                         => less_equal(y2, ret.val)

(* C18 witness: strictly inside a rising segment of a table with distinct  *)
(* inputs interpolate returned less than it does for a greater queried     *)
(* value inside the same segment.                                          *)
C18_Witness ==
    /\ call.op = "interpolate"
    /\ ret.ok
    /\ DistinctInputs(table_)
    /\ \E i \in 1..(Len(table_) - 1) : \E x2 \in LutInputs.values :
          /\ StrictlyInside(table_, i, call.value)
          /\ StrictlyInside(table_, i, x2)
          /\ ~less_equal(table_[i + 1].output, table_[i].output)
          /\ ~less_equal(x2, call.value)
          /\ ~less_equal(interpolate(table_, x2).val, ret.val)

(* The outputs of a sorted table are strictly monotonic in its inputs:     *)
(* the inputs strictly increase and the outputs strictly increase, or      *)
(* strictly decrease, along the table                                      *)
StrictlyMonotonic(table) ==
    /\ \A i \in 1..(Len(table) - 1) : ~less_equal(table[i + 1].input, table[i].input)
    /\ \/ \A i \in 1..(Len(table) - 1) : ~less_equal(table[i + 1].output, table[i].output)
       \/ \A i \in 1..(Len(table) - 1) : ~less_equal(table[i].output, table[i + 1].output)

(* C19: on a table whose outputs are strictly monotonic in its inputs      *)
(* reverse_lookup(e.output) = e.input for every entry e and                *)
(* reverse_lookup(interpolate(x)) = x for every x between the least and    *)
(* the greatest input; on {(0,0),(50,25),(100,75)} interpolate(25) = 12.5  *)
(* and reverse_lookup(25) = 50.                                            *)
C19_ReverseInverts ==
    /\ (call.op = "reverse_lookup" /\ StrictlyMonotonic(table_))
          => /\ \A i \in DOMAIN table_ :
                   call.value = table_[i].output => ret = Returns(table_[i].input)
             /\ (/\ has_value(call.of)
                 /\ less_equal(table_[1].input, value(call.of))
                 /\ less_equal(value(call.of), table_[Len(table_)].input))
                   => ret = Returns(value(call.of))
    /\ (call.op = "interpolate" /\ table_ = TestedTable /\ call.value = <<25, 1>>)
          => ret = Returns(<<25, 2>>)
    /\ (call.op = "reverse_lookup" /\ table_ = TestedTable /\ call.value = <<25, 1>>)
          => ret = Returns(<<50, 1>>)

(* C19 witness: on a three-entry table with falling outputs                *)
(* reverse_lookup(interpolate(x)) returned x for an x strictly between two *)
(* inputs, interpolate(x) being no entry's output.                         *)
C19_Witness ==
    /\ call.op = "reverse_lookup"
    /\ Len(table_) = 3
    /\ StrictlyMonotonic(table_)
    /\ ~less_equal(table_[1].output, table_[2].output)
    /\ has_value(call.of)
    /\ \E i \in 1..2 : StrictlyInside(table_, i, value(call.of))
    /\ \A i \in DOMAIN table_ : call.value # table_[i].output
    /\ ret = Returns(value(call.of))

(* The lookups of the test: interpolate(25) = 12.5 inverted to 25, and     *)
(* reverse_lookup(25) = 50                                                 *)
C19_WitnessTested ==
    /\ call.op = "reverse_lookup"
    /\ table_ = TestedTable
    /\ \/ call.value = <<25, 2>> /\ call.of = Some(<<25, 1>>) /\ ret = Returns(<<25, 1>>)
       \/ call.value = <<25, 1>> /\ ret = Returns(<<50, 1>>)

(* The stable sort of a table by input: entries with equal inputs keep    *)
(* the order they were given in                                            *)
StableSorted(table) ==
    LET n == Len(table)
        before(a, b) ==
            \/ ~less_equal(table[b].input, table[a].input)
            \/ table[a].input = table[b].input /\ a < b
        f == CHOOSE g \in [1..n -> 1..n] : \A i, j \in 1..n : i < j => before(g[i], g[j])
    IN [i \in 1..n |-> table[f[i]]]

(* The positions of the entries of a table with a given input *)
EntriesAt(table, x) == {i \in DOMAIN table : table[i].input = x}

(* C20: the constructor leaves the entries, given in any order, sorted     *)
(* ascending by input with entries of equal inputs in the order they were  *)
(* given, and at a duplicated input interpolate returns the output of the  *)
(* entry given earlier.                                                    *)
C20_StableEarlierWins ==
    call.op # "none"
       => /\ table_ = StableSorted(call.table)
          /\ (call.op = "interpolate" /\ Cardinality(EntriesAt(call.table, call.value)) > 1)
                => LET first == CHOOSE i \in EntriesAt(call.table, call.value) :
                                   \A j \in EntriesAt(call.table, call.value) : i <= j
                   IN ret = Returns(call.table[first].output)

(* What the constructor does guarantee: table_ holds the entries given,    *)
(* each as often as given, in ascending order of input.                    *)
LookupTableSorted ==
    call.op # "none"
       => /\ \A i, j \in DOMAIN table_ :
                i < j => less_equal(table_[i].input, table_[j].input)
          /\ Len(table_) = Len(call.table)
          /\ \A e \in {call.table[i] : i \in DOMAIN call.table} :
                Cardinality({i \in DOMAIN table_ : table_[i] = e})
                   = Cardinality({i \in DOMAIN call.table : call.table[i] = e})

(* With the entries in stable order, the entry given earlier still loses   *)
(* at the greatest input, where interpolate returns back().output.         *)
EarlierWinsWhenStable ==
    (/\ call.op = "interpolate"
     /\ table_ = StableSorted(call.table)
     /\ Cardinality(EntriesAt(call.table, call.value)) > 1)
       => LET first == CHOOSE i \in EntriesAt(call.table, call.value) :
                          \A j \in EntriesAt(call.table, call.value) : i <= j
          IN ret = Returns(call.table[first].output)

----------------------------------------------------------------------------
(* utils.hpp / utils.cpp: UnitConverter.  A double is the exact rational   *)
(* <<n, d>> of the lookup table; Times, Quot, Plus and Minus are *, /, +   *)
(* and - on doubles, Double(n) the double of an integer.                   *)

Double(n) == <<n, 1>>

Times(a, b) ==
    LET abs(n) == IF n < 0 THEN -n ELSE n
        g1 == gcd(abs(a[1]), abs(b[2]))
        g2 == gcd(abs(b[1]), abs(a[2]))
    IN Rational((a[1] \div g1) * (b[1] \div g2), (a[2] \div g2) * (b[2] \div g1))

Quot(a, b) == Times(a, <<b[2], b[1]>>)

Plus(a, b) == Rational(a[1] * b[2] + b[1] * a[2], a[2] * b[2])

Minus(a, b) == Plus(a, <<-b[1], b[2]>>)

(* enum class Unit, each unit with the dimension its comment groups it in *)
Unit ==
    [ KPA |-> "Pressure", PSI |-> "Pressure", BAR |-> "Pressure",
      N_MM |-> "Spring rate", LB_IN |-> "Spring rate",
      N_S_M |-> "Damping", LB_S_IN |-> "Damping",
      MM |-> "Length", INCHES |-> "Length", CM |-> "Length",
      CELSIUS |-> "Temperature", FAHRENHEIT |-> "Temperature",
      KELVIN |-> "Temperature",
      NM |-> "Torque", LB_FT |-> "Torque",
      NEWTONS |-> "Force", POUNDS |-> "Force",
      KPH |-> "Speed", MPH |-> "Speed", MS |-> "Speed",
      LITERS |-> "Volume", GALLONS_US |-> "Volume", GALLONS_UK |-> "Volume" ]

to_base(v, unit) ==
    CASE unit = "KPA" -> Returns(v)
      [] unit = "PSI" -> Returns(Times(v, Rational(689476, 100000)))
      [] unit = "BAR" -> Returns(Times(v, Double(100)))
      [] unit = "N_MM" -> Returns(v)
      [] unit = "LB_IN" -> Returns(Times(v, Rational(175127, 1000000)))
      [] unit = "N_S_M" -> Returns(v)
      [] unit = "LB_S_IN" -> Returns(Times(v, Rational(175127, 1000)))
      [] unit = "MM" -> Returns(v)
      [] unit = "INCHES" -> Returns(Times(v, Rational(254, 10)))
      [] unit = "CM" -> Returns(Times(v, Double(10)))
      [] unit = "CELSIUS" -> Returns(v)
      [] unit = "FAHRENHEIT" ->
           Returns(Quot(Times(Minus(v, Double(32)), Double(5)), Double(9)))
      [] unit = "KELVIN" -> Returns(Minus(v, Rational(27315, 100)))
      [] unit = "NM" -> Returns(v)
      [] unit = "LB_FT" -> Returns(Times(v, Rational(135582, 100000)))
      [] unit = "NEWTONS" -> Returns(v)
      [] unit = "POUNDS" -> Returns(Times(v, Rational(444822, 100000)))
      [] unit = "KPH" -> Returns(v)
      [] unit = "MPH" -> Returns(Times(v, Rational(160934, 100000)))
      [] unit = "MS" -> Returns(Times(v, Rational(36, 10)))
      [] unit = "LITERS" -> Returns(v)
      [] unit = "GALLONS_US" -> Returns(Times(v, Rational(378541, 100000)))
      [] unit = "GALLONS_UK" -> Returns(Times(v, Rational(454609, 100000)))
      [] OTHER -> Throws(<<"Unknown unit in to_base conversion">>)

(* from_base, were it to multiply by the reciprocal of each factor rounded *)
(* to three digits                                                         *)
from_base_reciprocal(v, unit) ==
    CASE unit \in {"KPA", "N_MM", "N_S_M", "MM", "CELSIUS", "NM", "NEWTONS",
                   "KPH", "LITERS"} -> Returns(v)
      [] unit = "PSI" -> Returns(Times(v, Rational(145, 1000)))
      [] unit = "BAR" -> Returns(Times(v, Rational(1, 100)))
      [] unit = "LB_IN" -> Returns(Times(v, Rational(571, 100)))
      [] unit = "LB_S_IN" -> Returns(Times(v, Rational(571, 100000)))
      [] unit = "INCHES" -> Returns(Times(v, Rational(394, 10000)))
      [] unit = "CM" -> Returns(Times(v, Rational(1, 10)))
      [] unit = "FAHRENHEIT" ->
           Returns(Plus(Times(v, Rational(18, 10)), Double(32)))
      [] unit = "KELVIN" -> Returns(Plus(v, Double(273)))
      [] unit = "LB_FT" -> Returns(Times(v, Rational(738, 1000)))
      [] unit = "POUNDS" -> Returns(Times(v, Rational(225, 1000)))
      [] unit = "MPH" -> Returns(Times(v, Rational(621, 1000)))
      [] unit = "MS" -> Returns(Times(v, Rational(278, 1000)))
      [] unit = "GALLONS_US" -> Returns(Times(v, Rational(264, 1000)))
      [] unit = "GALLONS_UK" -> Returns(Times(v, Rational(220, 1000)))
      [] OTHER -> Throws(<<"Unknown unit in from_base conversion">>)

from_base(v, unit) ==
    CASE unit = "KPA" -> Returns(v)
      [] unit = "PSI" -> Returns(Quot(v, Rational(689476, 100000)))
      [] unit = "BAR" -> Returns(Quot(v, Double(100)))
      [] unit = "N_MM" -> Returns(v)
      [] unit = "LB_IN" -> Returns(Quot(v, Rational(175127, 1000000)))
      [] unit = "N_S_M" -> Returns(v)
      [] unit = "LB_S_IN" -> Returns(Quot(v, Rational(175127, 1000)))
      [] unit = "MM" -> Returns(v)
      [] unit = "INCHES" -> Returns(Quot(v, Rational(254, 10)))
      [] unit = "CM" -> Returns(Quot(v, Double(10)))
      [] unit = "CELSIUS" -> Returns(v)
      [] unit = "FAHRENHEIT" ->
           Returns(Plus(Quot(Times(v, Double(9)), Double(5)), Double(32)))
      [] unit = "KELVIN" -> Returns(Plus(v, Rational(27315, 100)))
      [] unit = "NM" -> Returns(v)
      [] unit = "LB_FT" -> Returns(Quot(v, Rational(135582, 100000)))
      [] unit = "NEWTONS" -> Returns(v)
      [] unit = "POUNDS" -> Returns(Quot(v, Rational(444822, 100000)))
      [] unit = "KPH" -> Returns(v)
      [] unit = "MPH" -> Returns(Quot(v, Rational(160934, 100000)))
      [] unit = "MS" -> Returns(Quot(v, Rational(36, 10)))
      [] unit = "LITERS" -> Returns(v)
      [] unit = "GALLONS_US" -> Returns(Quot(v, Rational(378541, 100000)))
      [] unit = "GALLONS_UK" -> Returns(Quot(v, Rational(454609, 100000)))
      [] OTHER -> Throws(<<"Unknown unit in from_base conversion">>)

convert(v, from, to) ==
    IF from = to THEN Returns(v)
    ELSE LET base == to_base(v, from) IN
         IF base.ok THEN from_base(base.val, to) ELSE base

(* std::round: the nearest integer, halfway cases away from zero *)
std_round(x) ==
    LET a == IF x[1] < 0 THEN -x[1] ELSE x[1]
        q == (2 * a + x[2]) \div (2 * x[2])
    IN Double(IF x[1] < 0 THEN -q ELSE q)

round_to_step(v, step) ==
    IF less_equal(step, Double(0)) THEN v
    ELSE Times(std_round(Quot(v, step)), step)

(* std::min(a, b) is b when b < a and a otherwise; std::max(a, b) is b     *)
(* when a < b and a otherwise                                              *)
clamp(v, min, max, step) ==
    LET std_min(a, b) == IF ~less_equal(a, b) THEN b ELSE a
        std_max(a, b) == IF ~less_equal(b, a) THEN b ELSE a
        clamped == std_max(min, std_min(max, v))
    IN IF ~less_equal(step, Double(0)) THEN round_to_step(clamped, step)
       ELSE clamped

----------------------------------------------------------------------------
(* Callers of the utilities.  The functions are pure, so they are called   *)
(* before the document is built; the mappings that invert are applied to   *)
(* the documents the caller builds.                                        *)

MaxCompose == 2

CallTransform(t, x) ==
    /\ Idle
    /\ mutations = 0
    /\ call' = [op |-> "transform", t |-> t, x |-> x]
    /\ pre' = doc
    /\ ret' = Invoke(t, x)
    /\ UNCHANGED <<doc, mutations, table_, registry>>

Convert(v, from, to) ==
    /\ Idle
    /\ mutations = 0
    /\ call' = [op |-> "convert", value |-> v, from |-> from, to |-> to]
    /\ pre' = doc
    /\ ret' = convert(v, from, to)
    /\ UNCHANGED <<doc, mutations, table_, registry>>

(* back = convert(convert(value, from, to), to, from) *)
ConvertBack ==
    /\ call.op = "convert"
    /\ ret.ok
    /\ call' = [call EXCEPT !.op = "convert_back"]
    /\ ret' = convert(ret.val, call.to, call.from)
    /\ UNCHANGED <<doc, pre, mutations, table_, registry>>

Clamp(v, min, max, step) ==
    /\ Idle
    /\ mutations = 0
    /\ call' = [op |-> "clamp", value |-> v, min |-> min, max |-> max, step |-> step]
    /\ pre' = doc
    /\ ret' = Returns(clamp(v, min, max, step))
    /\ UNCHANGED <<doc, mutations, table_, registry>>

(* The inputs: the transforms and arguments of test_utils.cpp, composed in *)
(* lists of at most MaxCompose; the values given to convert, between any   *)
(* two units of one dimension and between the units of `cross`; the        *)
(* values, ranges and steps given to clamp; the mappings that invert and   *)
(* the values the caller assigns to their fields and to the native maps.   *)
UtilInputs ==
    [ transforms |-> {identity, scale(2), offset(5), linear(2, 3), negate},
      args |-> {10, 42, -5},
      values |-> {Double(0), Double(20), Double(32), Double(200), Double(-40),
                  Rational(254, 10)},
      cross |-> {<<"KPA", "MM">>, <<"PSI", "INCHES">>, <<"CELSIUS", "KPA">>,
                 <<"MPH", "FAHRENHEIT">>, <<"BAR", "KELVIN">>, <<"NM", "NEWTONS">>},
      clamped |-> {Double(50), Double(-10), Double(150), Rational(523, 10),
                   Rational(147, 10), Rational(1, 10)},
      ranges |-> {<<Double(0), Double(100)>>, <<Double(0), Rational(98, 10)>>,
                  <<Rational(2, 10), Double(5)>>, <<Double(-148), Double(148)>>,
                  <<Double(50), Double(50)>>},
      steps |-> {Double(0), Double(5), Rational(5, 10), Double(-1)},
      assigned |-> {0, 1},
      mappings |->
        { FieldMapping(<<"setup", "aero", "front_wing">>, <<"k1">>,
                       Some(invert), Some(invert), FALSE),
          FieldMapping(<<"setup", "aero", "rear_wing">>, <<"k2">>,
                       nullopt, nullopt, FALSE),
          FieldMapping(<<"setup", "aero", "rear_wing">>, <<"k3">>,
                       Some(invert), nullopt, TRUE) } ]

NextUtils ==
    \/ \E n \in 0..MaxCompose, x \in UtilInputs.args :
          \E list \in [1..n -> UtilInputs.transforms] : CallTransform(compose(list), x)
    \/ \E v \in UtilInputs.values, from \in DOMAIN Unit, to \in DOMAIN Unit :
          /\ Unit[from] = Unit[to] \/ <<from, to>> \in UtilInputs.cross
          /\ Convert(v, from, to)
    \/ ConvertBack
    \/ \E v \in UtilInputs.clamped, range \in UtilInputs.ranges,
           step \in UtilInputs.steps : Clamp(v, range[1], range[2], step)
    \/ Emplace("aero")
    \/ \E f \in {"front_wing", "rear_wing"}, v \in UtilInputs.assigned :
          AssignLeaf("aero", f, v)
    \/ \E n \in 0..MaxMappings : \E m \in [1..n -> UtilInputs.mappings] :
          MapToNative(m)
    \/ \E n \in 0..MaxMappings : \E m \in [1..n -> UtilInputs.mappings] :
          \E K \in SUBSET {<<"k1">>, <<"k2">>} : \E native \in [K -> UtilInputs.assigned] :
             MapToOrsf(native, m)

SpecUtils == Init /\ [][NextUtils]_vars

----------------------------------------------------------------------------
(* Properties of the transforms and the unit converter (under SpecUtils)   *)

(* fn(...f2(f1(x))) for the first n functions of the list *)
RECURSIVE AppliedInTurn(_, _, _)
AppliedInTurn(list, n, x) ==
    IF n = 0 THEN x ELSE Apply(list[n], AppliedInTurn(list, n - 1, x))

(* C21: the function compose(list) returns, applied to x, gives            *)
(* fn(...f2(f1(x))): the functions are applied left to right, each to the  *)
(* output of the one before it, and compose of the empty list returns x.  *)
C21_ComposeLeftToRight ==
    (call.op = "transform" /\ call.t.kind = "compose")
       => /\ ret = Returns(AppliedInTurn(call.t.transforms, Len(call.t.transforms),
                                         call.x))
          /\ call.t.transforms = <<>> => ret = Returns(call.x)

(* compose({scale(2), offset(5)})(10) returned 25, where the other order   *)
(* gives 30                                                                *)
C21_Witness ==
    /\ call.op = "transform"
    /\ call.t = compose(<<scale(2), offset(5)>>)
    /\ call.x = 10
    /\ ret = Returns(25)
    /\ Apply(scale(2), Apply(offset(5), 10)) = 30

C21_WitnessEmpty ==
    /\ call.op = "transform"
    /\ call.t = compose(<<>>)
    /\ ret = Returns(call.x)

(* The transform of the i-th mapping is given a value it rejects: the     *)
(* field (the key) is there and the transform throws on its value          *)
ToNativeFails(setup, mapping) ==
    LET v == get_value(setup, mapping.orsf_path) IN
    /\ has_value(v)
    /\ has_value(mapping.to_native)
    /\ ~Invoke(value(mapping.to_native), value(v)).ok

ToOrsfFails(native, mapping) ==
    /\ mapping.native_key \in DOMAIN native
    /\ has_value(mapping.to_orsf)
    /\ ~Invoke(value(mapping.to_orsf), native[mapping.native_key]).ok

(* C22: a transform failure is local to one field.  When the transform of  *)
(* a mapping throws in map_to_native or map_to_orsf and no required field  *)
(* is missing, the call still returns, and its result holds the            *)
(* conversion of every other mapping whose field is there.                 *)
C22_TransformFailureLocal ==
    /\ (/\ call.op = "map_to_native"
        /\ \E i \in DOMAIN call.mappings : ToNativeFails(pre, call.mappings[i])
        /\ \A i \in DOMAIN call.mappings :
              call.mappings[i].required
                 => has_value(get_value(pre, call.mappings[i].orsf_path)))
          => /\ ret.ok
             /\ \A j \in DOMAIN call.mappings :
                   (/\ has_value(get_value(pre, call.mappings[j].orsf_path))
                    /\ ~ToNativeFails(pre, call.mappings[j]))
                      => call.mappings[j].native_key \in DOMAIN ret.val
    /\ (/\ call.op = "map_to_orsf"
        /\ \E i \in DOMAIN call.mappings : ToOrsfFails(call.native, call.mappings[i])
        /\ \A i \in DOMAIN call.mappings :
              call.mappings[i].required
                 => call.mappings[i].native_key \in DOMAIN call.native)
          => /\ ret.ok
             /\ \A j \in DOMAIN call.mappings :
                   (/\ call.mappings[j].native_key \in DOMAIN call.native
                    /\ ~ToOrsfFails(call.native, call.mappings[j])
                    /\ \A k \in DOMAIN call.mappings :
                          k > j => call.mappings[k].orsf_path # call.mappings[j].orsf_path)
                      => get_value(ret.val, call.mappings[j].orsf_path)
                            = Some(call.native[call.mappings[j].native_key])

(* What the code does: the exception of the transform leaves the loop and  *)
(* the call, as the exception of a missing required field does; the call   *)
(* throws whenever a transform of the list fails or a required field is    *)
(* missing, and returns nothing of the other mappings.                     *)
TransformFailureAborts ==
    /\ (/\ call.op = "map_to_native"
        /\ \E i \in DOMAIN call.mappings : ToNativeFails(pre, call.mappings[i]))
          => /\ ~ret.ok
             /\ ret.what \in {<<"Cannot invert zero value">>}
                              \cup {<<"Required field missing: ", call.mappings[i].orsf_path>> :
                                       i \in DOMAIN call.mappings}
    /\ (/\ call.op = "map_to_orsf"
        /\ \E i \in DOMAIN call.mappings : ToOrsfFails(call.native, call.mappings[i]))
          => ~ret.ok

(* C23: convert fails fast on units of different dimensions: it raises an *)
(* error and returns no number unless `from` and `to` are units of the     *)
(* same dimension.                                                         *)
C23_CrossFamilyFails ==
    call.op = "convert" => (ret.ok <=> Unit[call.from] = Unit[call.to])

(* What the code does: convert returns a number for every two units, the   *)
(* value taken to the base unit of `from` and from the base unit of `to`   *)
(* as if the two bases were one; between two base units it returns the     *)
(* value itself.                                                           *)
CrossFamilyReturnsNumber ==
    call.op = "convert"
       => /\ ret.ok
          /\ (call.from = "KPA" /\ call.to = "MM") => ret.val = call.value
          /\ (call.from = "PSI" /\ call.to = "INCHES")
                => ret.val = Quot(Times(call.value, Rational(689476, 100000)),
                                  Rational(254, 10))

(* C24: for two units A, B of one dimension, convert(convert(x, A, B), B,  *)
(* A) gives x back, each unit's to_base and from_base being inverse to    *)
(* each other (the affine temperature units included), and convert(x, A,  *)
(* A) returns x.  The doubles of the model are exact, so "within floating *)
(* tolerance" is equality here.                                            *)
C24_ConvertRoundTrip ==
    /\ (call.op = "convert_back" /\ Unit[call.from] = Unit[call.to])
          => ret = Returns(call.value)
    /\ call.op = "convert"
          => /\ from_base(to_base(call.value, call.from).val, call.from)
                   = Returns(call.value)
             /\ to_base(from_base(call.value, call.to).val, call.to)
                   = Returns(call.value)
             /\ call.from = call.to => ret = Returns(call.value)

(* 32 F was converted to 273.15 K and back *)
C24_Witness ==
    /\ call.op = "convert_back"
    /\ call.from = "FAHRENHEIT"
    /\ call.to = "KELVIN"
    /\ call.value = Double(32)
    /\ ret = Returns(Double(32))

(* 200 kPa was converted to PSI, a value that is no whole number, and back *)
C24_WitnessPressure ==
    /\ call.op = "convert_back"
    /\ call.from = "KPA"
    /\ call.to = "PSI"
    /\ call.value = Double(200)
    /\ ret = Returns(Double(200))

(* C25: clamp(value, min, max, step) with min <= max clamps into range    *)
(* for every step: the result r satisfies min <= r <= max, when step <= 0 *)
(* (plain clamp) and when step > 0 (the clamped value rounded to the      *)
(* nearest multiple of step).                                              *)
C25_ClampInRange ==
    (call.op = "clamp" /\ less_equal(call.min, call.max))
       => /\ less_equal(call.min, ret.val)
          /\ less_equal(ret.val, call.max)

(* What the code does: without a step the result is the value brought     *)
(* into range; with a step it is the multiple of step nearest to that     *)
(* value (halfway cases away from zero), which lies in the range when min *)
(* and max are multiples of step and may lie up to step / 2 outside it    *)
(* otherwise.                                                              *)
ClampThenRound ==
    call.op = "clamp"
       => LET positive == ~less_equal(call.step, Double(0))
              clamped == IF less_equal(call.value, call.min) THEN call.min
                         ELSE IF less_equal(call.max, call.value) THEN call.max
                         ELSE call.value
              multiple(x) == Quot(x, call.step)[2] = 1
              distance == LET d == Minus(ret.val, clamped)
                          IN IF d[1] < 0 THEN <<-d[1], d[2]>> ELSE d
          IN /\ ~positive => ret.val = clamped
             /\ positive
                   => /\ multiple(ret.val)
                      /\ less_equal(Times(distance, Double(2)), call.step)
                      /\ (multiple(call.min) /\ multiple(call.max))
                            => (less_equal(call.min, ret.val)
                                  /\ less_equal(ret.val, call.max))

----------------------------------------------------------------------------
(* adapter.hpp / adapter.cpp: AdapterRegistry.  A std::shared_ptr<Adapter> *)
(* is an optional: nullptr is <<>>, and <<a>> points to the adapter a, the *)
(* record of what get_id, get_version and get_car_key return with the      *)
(* description that tells two adapters of one key apart.                   *)

nullptr == <<>>

Adapter(id, version, car_key, description) ==
    [id |-> id, version |-> version, car_key |-> car_key, description |-> description]

register_adapter(adapters, adapter) == Append(adapters, adapter)

(* The first loop of resolve, were the version and car key never compared *)
first_loop_by_id(adapters, id, version, car_key) ==
    LET found == {i \in DOMAIN adapters : adapters[i].id = id}
    IN IF found = {} THEN nullptr
       ELSE Some(adapters[CHOOSE i \in found : \A j \in found : i <= j])

(* The first loop of resolve ("Try exact match first"): the first adapter  *)
(* that matches the id, the version unless empty and the car key unless    *)
(* empty                                                                   *)
first_loop(adapters, id, version, car_key) ==
    LET found == {i \in DOMAIN adapters :
                    /\ adapters[i].id = id
                    /\ version = "" \/ adapters[i].version = version
                    /\ car_key = "" \/ adapters[i].car_key = car_key}
    IN IF found = {} THEN nullptr
       ELSE Some(adapters[CHOOSE i \in found : \A j \in found : i <= j])

(* The second loop ("Try partial match"): the first adapter of the id *)
second_loop(adapters, id) ==
    LET found == {i \in DOMAIN adapters : adapters[i].id = id}
    IN IF found = {} THEN nullptr
       ELSE Some(adapters[CHOOSE i \in found : \A j \in found : i <= j])

resolve(adapters, id, version, car_key) ==
    IF first_loop(adapters, id, version, car_key) # nullptr
    THEN first_loop(adapters, id, version, car_key)
    ELSE second_loop(adapters, id)

get_all_adapters(adapters) == adapters

get_adapters_for_game(adapters, id) == SelectSeq(adapters, LAMBDA a : a.id = id)

(* unregister_adapter, were it to erase the first match only *)
unregister_first(adapters, id, version, car_key) ==
    LET found == {i \in DOMAIN adapters :
                    /\ adapters[i].id = id
                    /\ adapters[i].version = version
                    /\ adapters[i].car_key = car_key}
        first == CHOOSE i \in found : \A j \in found : i <= j
    IN IF found = {} THEN adapters
       ELSE SubSeq(adapters, 1, first - 1) \o SubSeq(adapters, first + 1, Len(adapters))

(* erase(remove_if(begin, end, pred), end) *)
unregister_adapter(adapters, id, version, car_key) ==
    SelectSeq(adapters, LAMBDA a : ~(/\ a.id = id
                                     /\ a.version = version
                                     /\ a.car_key = car_key))

clear(adapters) == <<>>

(* What a call does between taking and releasing the lock: the list it     *)
(* leaves and the value it returns (void is <<>>)                          *)
critical_section(adapters, request) ==
    CASE request.op = "register_adapter" ->
           [adapters |-> register_adapter(adapters, request.adapter), ret |-> <<>>]
      [] request.op = "resolve" ->
           [adapters |-> adapters,
            ret |-> resolve(adapters, request.id, request.version, request.car_key)]
      [] request.op = "get_all_adapters" ->
           [adapters |-> adapters, ret |-> get_all_adapters(adapters)]
      [] request.op = "get_adapters_for_game" ->
           [adapters |-> adapters, ret |-> get_adapters_for_game(adapters, request.id)]
      [] request.op = "unregister_adapter" ->
           [adapters |-> unregister_adapter(adapters, request.id, request.version,
                                            request.car_key),
            ret |-> <<>>]
      [] request.op = "clear" -> [adapters |-> clear(adapters), ret |-> <<>>]

(* One caller: the call made, with the list it found, and what it returned *)
RegistryCall(request) ==
    /\ request.op = "register_adapter" => Len(adapters_) < MaxAdapters
    /\ call' = request @@ [adapters |-> adapters_]
    /\ ret' = Returns(critical_section(adapters_, request).ret)
    /\ adapters_' = critical_section(adapters_, request).adapters
    /\ UNCHANGED <<doc, pre, mutations, table_, mutex_, thread, calls>>

(* The calls: the adapters registered (ExampleAdapter of adapter.cpp, a    *)
(* second adapter of its key, one of another version and car, one of       *)
(* another game), the ids, versions and car keys asked for, and the calls *)
(* the concurrent threads make.                                            *)
RegistryInputs ==
    [ adapters |-> { Adapter("example", "1.0", "generic", "Example adapter"),
                     Adapter("example", "1.0", "generic", "Second adapter"),
                     Adapter("example", "2.0", "gt3", "Later version"),
                     Adapter("other", "1.0", "generic", "Other game") },
      ids |-> {"example", "other", "nonexistent"},
      versions |-> {"", "1.0", "2.0"},
      car_keys |-> {"", "generic", "gt3"},
      concurrent |->
        { [op |-> "register_adapter",
           adapter |-> Adapter("example", "1.0", "generic", "Example adapter")],
          [op |-> "register_adapter",
           adapter |-> Adapter("example", "2.0", "gt3", "Later version")],
          [op |-> "resolve", id |-> "example", version |-> "", car_key |-> ""],
          [op |-> "resolve", id |-> "example", version |-> "2.0", car_key |-> "gt3"],
          [op |-> "get_all_adapters"],
          [op |-> "get_adapters_for_game", id |-> "example"],
          [op |-> "unregister_adapter", id |-> "example", version |-> "1.0",
           car_key |-> "generic"],
          [op |-> "clear"] } ]

Requests ==
    {[op |-> "register_adapter", adapter |-> a] : a \in RegistryInputs.adapters}
    \cup {[op |-> "resolve", id |-> id, version |-> version, car_key |-> car_key] :
            id \in RegistryInputs.ids, version \in RegistryInputs.versions,
            car_key \in RegistryInputs.car_keys}
    \cup {[op |-> "get_all_adapters"]}
    \cup {[op |-> "get_adapters_for_game", id |-> id] : id \in RegistryInputs.ids}
    \cup {[op |-> "unregister_adapter", id |-> id, version |-> version,
           car_key |-> car_key] :
            id \in RegistryInputs.ids, version \in RegistryInputs.versions \ {""},
            car_key \in RegistryInputs.car_keys \ {""}}
    \cup {[op |-> "clear"]}

NextRegistry ==
    \/ \E r \in Requests : r.op = "register_adapter" /\ RegistryCall(r)
    \/ \E r \in Requests : r.op = "resolve" /\ RegistryCall(r)
    \/ \E r \in Requests : r.op = "get_all_adapters" /\ RegistryCall(r)
    \/ \E r \in Requests : r.op = "get_adapters_for_game" /\ RegistryCall(r)
    \/ \E r \in Requests : r.op = "unregister_adapter" /\ RegistryCall(r)
    \/ \E r \in Requests : r.op = "clear" /\ RegistryCall(r)

SpecRegistry == Init /\ [][NextRegistry]_vars

----------------------------------------------------------------------------
(* Properties of the adapter registry with one caller (under SpecRegistry) *)

(* The adapter has the id, version and car key the call names *)
Named(a, request) ==
    /\ a.id = request.id
    /\ a.version = request.version
    /\ a.car_key = request.car_key

(* C27: unregister_adapter(id, version, car_key) removes exactly the       *)
(* registered adapters whose id, version and car key all equal its         *)
(* arguments, every duplicate of them, and leaves the others registered in *)
(* their order; resolve(id) returns nullptr when no registered adapter has *)
(* the id, as for an id never registered or after clear(); and             *)
(* get_all_adapters returns the adapters in the order they were            *)
(* registered: register_adapter adds at the end and no other call changes  *)
(* the order.                                                              *)
C27_UnregisterExactly ==
    /\ call.op = "unregister_adapter"
          => LET kept == {i \in DOMAIN call.adapters : ~Named(call.adapters[i], call)}
                 rank(i) == Cardinality({j \in kept : j <= i})
             IN /\ Len(adapters_) = Cardinality(kept)
                /\ \A i \in kept : adapters_[rank(i)] = call.adapters[i]
    /\ (call.op = "resolve"
          /\ \A i \in DOMAIN call.adapters : call.adapters[i].id # call.id)
          => ret = Returns(nullptr)
    /\ call.op = "clear" => adapters_ = <<>>
    /\ call.op = "register_adapter" => adapters_ = Append(call.adapters, call.adapter)
    /\ call.op = "get_all_adapters" => ret = Returns(call.adapters)
    /\ call.op \in {"resolve", "get_all_adapters", "get_adapters_for_game"}
          => adapters_ = call.adapters

(* Two adapters of the key were registered around one of another game, and *)
(* unregister_adapter left that one alone                                  *)
C27_Witness ==
    /\ call.op = "unregister_adapter"
    /\ Len(call.adapters) = 3
    /\ Named(call.adapters[1], call)
    /\ ~Named(call.adapters[2], call)
    /\ Named(call.adapters[3], call)
    /\ call.adapters[1] # call.adapters[3]
    /\ adapters_ = <<call.adapters[2]>>

(* resolve("example") returned nullptr after the adapters of that id were  *)
(* unregistered, another adapter being left                                *)
C27_WitnessResolve ==
    /\ call.op = "resolve"
    /\ call.id = "example"
    /\ call.adapters # <<>>
    /\ ret = Returns(nullptr)

(* The adapter satisfies the request of resolve: its id is the id asked    *)
(* for, its version the version unless that is empty, its car key the car  *)
(* key unless that is empty                                                *)
Satisfies(a, request) ==
    /\ a.id = request.id
    /\ request.version # "" => a.version = request.version
    /\ request.car_key # "" => a.car_key = request.car_key

(* C28: resolve(id, version, car_key) returns an adapter only if it        *)
(* matches the request (id equal, version equal unless empty, car key      *)
(* equal unless empty), and returns nullptr when no registered adapter     *)
(* satisfies all three.                                                    *)
C28_ResolveMatches ==
    call.op = "resolve"
       => /\ ret.val # nullptr => Satisfies(value(ret.val), call)
          /\ (\A i \in DOMAIN call.adapters : ~Satisfies(call.adapters[i], call))
                => ret.val = nullptr

(* What the code does: the first registered adapter that satisfies the     *)
(* request; when there is none, the first registered adapter of the id,    *)
(* whatever its version and car key; nullptr only when no adapter has the  *)
(* id.                                                                     *)
ResolveFallsBackToId ==
    call.op = "resolve"
       => LET exact == {i \in DOMAIN call.adapters : Satisfies(call.adapters[i], call)}
              by_id == {i \in DOMAIN call.adapters : call.adapters[i].id = call.id}
              first(S) == CHOOSE i \in S : \A j \in S : i <= j
          IN ret.val = IF exact # {} THEN Some(call.adapters[first(exact)])
                       ELSE IF by_id # {} THEN Some(call.adapters[first(by_id)])
                       ELSE nullptr

----------------------------------------------------------------------------
(* The registry called by several threads.  A call is the constructor of   *)
(* std::lock_guard (ThreadLock), the statements it guards, and its         *)
(* destructor on return (ThreadUnlock); resolve runs its two loops in two  *)
(* steps.  At most MaxCalls calls are made in all.                         *)

(* std::mutex::lock, were it to return without waiting for the owner *)
lock_without_waiting(mutex, t) == {Some(t)}

(* std::mutex::lock by thread t: the owner after it has returned; it does  *)
(* not return while another thread owns the mutex                          *)
std_mutex_lock(mutex, t) == IF mutex = nullopt THEN {Some(t)} ELSE {}

ThreadCall(t, request) ==
    /\ thread[t].pc = "idle"
    /\ calls < MaxCalls
    /\ thread' = [thread EXCEPT ![t] = [pc |-> "lock", request |-> request]]
    /\ calls' = calls + 1
    /\ UNCHANGED <<doc, call, pre, ret, mutations, table_, adapters_, mutex_>>

(* `serial` is what the call does to the list as it is when the lock is    *)
(* taken: the call run alone, after the calls that took the lock before it *)
ThreadLock(t) ==
    /\ thread[t].pc = "lock"
    /\ mutex_' \in std_mutex_lock(mutex_, t)
    /\ thread' = [thread EXCEPT ![t] =
                    [pc |-> "locked", request |-> thread[t].request,
                     serial |-> critical_section(adapters_, thread[t].request)]]
    /\ UNCHANGED <<doc, call, pre, ret, mutations, table_, adapters_, calls>>

ThreadFirstLoop(t) ==
    /\ thread[t].pc = "locked"
    /\ thread[t].request.op = "resolve"
    /\ LET found == first_loop(adapters_, thread[t].request.id,
                               thread[t].request.version, thread[t].request.car_key)
       IN thread' = [thread EXCEPT ![t] =
                       IF found # nullptr
                       THEN [pc |-> "unlock", ret |-> found] @@ thread[t]
                       ELSE [pc |-> "second_loop"] @@ thread[t]]
    /\ UNCHANGED <<doc, call, pre, ret, mutations, table_, adapters_, mutex_, calls>>

ThreadSecondLoop(t) ==
    /\ thread[t].pc = "second_loop"
    /\ thread' = [thread EXCEPT ![t] =
                    [pc |-> "unlock",
                     ret |-> second_loop(adapters_, thread[t].request.id)] @@ thread[t]]
    /\ UNCHANGED <<doc, call, pre, ret, mutations, table_, adapters_, mutex_, calls>>

(* The guarded statements of the other five functions *)
ThreadAccess(t) ==
    /\ thread[t].pc = "locked"
    /\ thread[t].request.op # "resolve"
    /\ adapters_' = critical_section(adapters_, thread[t].request).adapters
    /\ thread' = [thread EXCEPT ![t] =
                    [pc |-> "unlock",
                     ret |-> critical_section(adapters_, thread[t].request).ret]
                       @@ thread[t]]
    /\ UNCHANGED <<doc, call, pre, ret, mutations, table_, mutex_, calls>>

ThreadUnlock(t) ==
    /\ thread[t].pc = "unlock"
    /\ mutex_' = nullopt
    /\ thread' = [thread EXCEPT ![t] = [pc |-> "idle"]]
    /\ UNCHANGED <<doc, call, pre, ret, mutations, table_, adapters_, calls>>

NextThreads ==
    \/ \E t \in 1..MaxThreads, request \in RegistryInputs.concurrent :
          ThreadCall(t, request)
    \/ \E t \in 1..MaxThreads : ThreadLock(t)
    \/ \E t \in 1..MaxThreads : ThreadFirstLoop(t)
    \/ \E t \in 1..MaxThreads : ThreadSecondLoop(t)
    \/ \E t \in 1..MaxThreads : ThreadAccess(t)
    \/ \E t \in 1..MaxThreads : ThreadUnlock(t)

SpecThreads == Init /\ [][NextThreads]_vars

(* A thread that can take a step of its call eventually takes one: the     *)
(* scheduler runs every runnable thread.  Nothing is assumed of the order  *)
(* in which the mutex is handed to the threads waiting for it.             *)
SpecThreadsFair ==
    /\ SpecThreads
    /\ \A t \in 1..MaxThreads :
          WF_vars(ThreadLock(t) \/ ThreadFirstLoop(t) \/ ThreadSecondLoop(t)
                    \/ ThreadAccess(t) \/ ThreadUnlock(t))

----------------------------------------------------------------------------
(* Properties of the registry under concurrent callers (SpecThreadsFair)   *)

(* The positions at which a thread reads or writes adapters_, or is about  *)
(* to return from the function with the lock_guard still alive             *)
Guarded == {"locked", "second_loop", "unlock"}

MutualExclusion ==
    \A t \in 1..MaxThreads : thread[t].pc \in Guarded => mutex_ = Some(t)

(* A call that has run its statements left the list, and is about to       *)
(* return the value, of the call run alone on the list it found when it    *)
(* took the lock; with the lock free the list is that of the calls run one *)
(* after another in the order they took the lock.                          *)
Serialized ==
    \A t \in 1..MaxThreads :
       thread[t].pc = "unlock"
          => /\ thread[t].ret = thread[t].serial.ret
             /\ adapters_ = thread[t].serial.adapters

(* C26: under any interleaving of threads calling the six functions of the *)
(* registry, at most one thread accesses the adapter list at a time (every *)
(* access is made holding the mutex), every call takes effect atomically   *)
(* (the list it leaves and the value it returns are those of the calls in  *)
(* the order they took the lock), and every call releases the lock and     *)
(* completes.                                                              *)
C26_SerializedCalls ==
    /\ [](MutualExclusion /\ Serialized)
    /\ \A t \in 1..MaxThreads :
          /\ (thread[t].pc # "idle") ~> (thread[t].pc = "idle")
          /\ (mutex_ = Some(t)) ~> (mutex_ # Some(t))

(* One thread is between the two loops of resolve, holding the mutex,      *)
(* while another waits in lock() to register an adapter of the id          *)
C26_Witness ==
    \E t, u \in 1..MaxThreads :
       /\ thread[t].pc = "second_loop"
       /\ mutex_ = Some(t)
       /\ thread[u].pc = "lock"
       /\ thread[u].request.op = "register_adapter"
       /\ thread[u].request.adapter.id = thread[t].request.id

(* Both calls were made while the registry was free; the second to take    *)
(* the lock found the adapter the first had registered                     *)
C26_WitnessSecond ==
    \E t \in 1..MaxThreads :
       /\ thread[t].pc = "unlock"
       /\ thread[t].request.op = "resolve"
       /\ thread[t].ret # nullptr
       /\ calls = 2

----------------------------------------------------------------------------
(* Properties of the JSON encoding of the car (under SpecValidate)         *)

(* The member of the car object of the text under `key`, if the text holds *)
(* a car object                                                            *)
CarMember(json_str, key) ==
    IF /\ json_str.parsed.ok
       /\ json_str.parsed.val.type = "object"
       /\ has_value(json_str.parsed.val.members.car)
       /\ value(json_str.parsed.val.members.car).type = "object"
    THEN value(json_str.parsed.val.members.car).members[key]
    ELSE nullopt

(* C29: the car class is read from the wire key "class": for every text    *)
(* from_json accepts whose car object carries "class": c, the document     *)
(* returned holds c as its car class; and a document of schema            *)
(* "orsf://v1" written by to_json and read back by from_json keeps its car *)
(* class.                                                                  *)
C29_ClassKeyDecoded ==
    /\ (/\ call.op = "from_json"
        /\ ret.ok
        /\ has_value(CarMember(call.json_str, "class"))
        /\ value(CarMember(call.json_str, "class")).type = "string")
          => ret.val.car.car_class = Some(value(CarMember(call.json_str, "class")).v)
    /\ (call.op = "to_json" /\ pre.schema = "orsf://v1")
          => ret.ok /\ ret.val.car.car_class = pre.car.car_class

(* What the code does: the car class is written and read under the key     *)
(* "car_class", the name of the member (so writing and reading back keeps  *)
(* it); the key "class" is never read.                                     *)
CarClassKeyIsMemberName ==
    /\ (call.op \in {"from_json", "to_json"} /\ ret.ok)
          => LET member == CarMember(call.json_str, "car_class") IN
             ret.val.car.car_class
                = IF has_value(member) /\ value(member).type = "string"
                  THEN Some(value(member).v)
                  ELSE nullopt
    /\ (call.op = "to_json" /\ pre.schema = "orsf://v1")
          => /\ ret.ok
             /\ ret.val.car.car_class = pre.car.car_class
             /\ ~has_value(CarMember(call.json_str, "class"))

----------------------------------------------------------------------------
(* flatten_orsf against get_value (under Spec)                             *)

(* The keys of the flat map that get_value does not resolve to the value   *)
(* flatten_orsf gave them                                                  *)
Unresolved(orsf, flat) == {k \in DOMAIN flat : get_value(orsf, k) # Some(flat[k])}

(* C30: flatten_orsf and get_value agree on every flattened key: for every *)
(* key k of flatten_orsf(doc), get_value(doc, k) returns a value and it is *)
(* flatten_orsf(doc)[k], so every flattened field can be the source path   *)
(* of a field mapping.                                                     *)
C30_FlattenKeysResolve ==
    call.op = "flatten_orsf" => Unresolved(pre, ret) = {}

(* What the code does: get_value resolves every flattened key to its value *)
(* except those of the leaves it has no branch for: the corners' packer_mm,*)
(* suspension heave_packer_mm, the gearing section (gear_<i> and the       *)
(* others), electronics tc2_level and engine_brake_level and fuel          *)
(* mixture_setting.                                                        *)
FlattenKeysResolveButUnhandled ==
    call.op = "flatten_orsf"
       => \A k \in Unresolved(pre, ret) :
             \/ k[2] = "gearing"
             \/ k[Len(k)] \in {"packer_mm", "heave_packer_mm", "tc2_level",
                               "engine_brake_level", "mixture_setting"}

====
